---- MODULE Spec2Model ----
(***************************************************************************)
(* Model of the migration-flow orchestrator (process_repo) of              *)
(* horizon_standard_migrator.py and of the rewriters it sequences          *)
(* (wrapper_updater.py, settings_template.py, gradle_platform_migrator.py, *)
(* gradle_parser.py).                                                      *)
(*                                                                         *)
(* Files of the working tree are modelled by the facts the code reads and  *)
(* writes.  gradle-wrapper.properties is modelled line by line, because    *)
(* update_gradle_wrapper and revert_wrapper_network_timeout edit it with   *)
(* multi-line regular expressions.  Files in the model have no blank       *)
(* lines and no leading white space.                                       *)
(***************************************************************************)
EXTENDS Integers, Sequences, FiniteSets, TLC

VARIABLES pc, flags, tree, orig, flow, out, wrinfo, calls

vars == <<pc, flags, tree, orig, flow, out, wrinfo, calls>>

-----------------------------------------------------------------------------
(* Bounds *)

\* largest number of gradle.allprojects blocks in settings.gradle
MaxSettingsBlocks == 2
\* largest number of wrapper blocks in the root build.gradle
MaxWrapperBlocks == 2
\* largest number of networkTimeout lines in a wrapper-properties file
MaxTimeoutLines == 1

-----------------------------------------------------------------------------
(* Program constants *)

\* wrapper_updater.py: the networkTimeout default (10 minutes)
DefaultTimeout == 600000
\* wrapper_updater.py: the minimum supported Gradle version, '6.9.2'
FloorVersion == <<6, 9, 2>>
\* marks a None value of the result dict
None == -1

-----------------------------------------------------------------------------
(* Helpers over sequences *)

RECURSIVE Digits(_)
\* str(n): the decimal digits of n, most significant first
Digits(n) == IF n < 10 THEN <<n>> ELSE Append(Digits(n \div 10), n % 10)

IsPrefix(p, s) == Len(p) <= Len(s) /\ SubSeq(s, 1, Len(p)) = p

RECURSIVE LexLess(_, _)
\* Python's list comparison a < b
LexLess(a, b) ==
  IF a = <<>> THEN b # <<>>
  ELSE IF b = <<>> THEN FALSE
  ELSE IF Head(a) # Head(b) THEN Head(a) < Head(b)
  ELSE LexLess(Tail(a), Tail(b))

\* index of the first element of s satisfying P, 0 if there is none
FirstIdx(s, P(_)) ==
  IF \E i \in 1..Len(s) : P(s[i])
  THEN CHOOSE i \in 1..Len(s) : P(s[i]) /\ \A j \in 1..(i-1) : ~P(s[j])
  ELSE 0

-----------------------------------------------------------------------------
(* gradle-wrapper.properties: a sequence of lines and whether the text     *)
(* ends with a newline.  Line kinds:                                       *)
(*   url    distributionUrl=<...>; kind is bin, all, or none when the file *)
(*          name is not gradle-<version>-(bin|all).zip; ver the version;   *)
(*          esc whether ':' is written '\:'; base the host the URL names   *)
(*   nt     networkTimeout=<v>                                             *)
(*   prop   any other key=value line                                       *)
(*   raw    the literal text \1600000\2                                    *)
(*   chr    the character with code v followed by the digits d             *)
(*   digits the digits d alone on a line                                   *)

Line(k, v, d, kind, esc, base) ==
  [k |-> k, v |-> v, d |-> d, kind |-> kind, esc |-> esc, base |-> base]

UrlLine(ver, kind, esc, base) == Line("url", 0, ver, kind, esc, base)
NtLine(v)      == Line("nt", v, <<>>, "", FALSE, "")
PropLine       == Line("prop", 0, <<>>, "", FALSE, "")
RawLine        == Line("raw", 0, <<>>, "\\1600000\\2", FALSE, "")
ChrLine(c, d)  == Line("chr", c, d, "", FALSE, "")
DigitsLine(d)  == Line("digits", 0, d, "", FALSE, "")

IsUrl(l) == l.k = "url"
IsNt(l)  == l.k = "nt"

File(lines, nl) == [exists |-> TRUE, lines |-> lines, nl |-> nl]
NoFile == [exists |-> FALSE, lines |-> <<>>, nl |-> FALSE]

\* the values of the networkTimeout property lines of a file, in order
TimeoutValues(f) ==
  LET nts == SelectSeq(f.lines, IsNt)
  IN  [i \in 1..Len(nts) |-> nts[i].v]

\* re.sub(pattern, '', text) for a pattern that matches whole lines
\* (with the line's newline): the lines satisfying Del disappear
RemoveLines(f, Del(_)) ==
  LET Keep(l) == ~Del(l)
      kept == SelectSeq(f.lines, Keep)
  IN  IF f.lines = <<>> THEN f
      ELSE [f EXCEPT !.lines = kept,
                     !.nl = IF kept = <<>> THEN FALSE
                            ELSE IF Del(f.lines[Len(f.lines)]) THEN TRUE
                            ELSE f.nl]

\* re.sub over the networkTimeout lines: each is rewritten by Repl
MapTimeoutLines(f, Repl(_)) ==
  [f EXCEPT !.lines = [i \in 1..Len(f.lines) |->
                         IF IsNt(f.lines[i]) THEN Repl(f.lines[i])
                         ELSE f.lines[i]]]

-----------------------------------------------------------------------------
(* wrapper_updater.update_gradle_wrapper *)

WrResult(success, added, changed, prev, new, enforced, err) ==
  [success |-> success, network_timeout_added |-> added,
   network_timeout_changed |-> changed, network_timeout_prev |-> prev,
   network_timeout_new |-> new, enforced_default |-> enforced, error |-> err]

WrFail(err) == WrResult(FALSE, FALSE, FALSE, None, None, FALSE, err)

\* the replacement r"\\1600000\\2" of re.sub is the literal text \1600000\2:
\* it writes neither group 1 (the key) nor group 2 (the trailing space)
RaiseTimeoutLine(l) == RawLine

\* lines 80-96: the networkTimeout handling, applied to the content whose
\* distributionUrl line has been replaced
EnsureNetworkTimeout(f) ==
  LET nti == FirstIdx(f.lines, IsNt)
  IN  IF nti = 0
      THEN [file |-> [f EXCEPT !.lines = Append(f.lines, NtLine(DefaultTimeout)),
                               !.nl = TRUE],
            added |-> TRUE, changed |-> FALSE, prev |-> None,
            new |-> DefaultTimeout]
      ELSE LET prev == f.lines[nti].v
           IN  IF prev < DefaultTimeout
               THEN [file |-> [MapTimeoutLines(f, RaiseTimeoutLine) EXCEPT
                                 !.nl = IF IsNt(f.lines[Len(f.lines)])
                                        THEN FALSE ELSE f.nl],
                     added |-> FALSE, changed |-> TRUE, prev |-> prev,
                     new |-> DefaultTimeout]
               ELSE [file |-> f, added |-> FALSE, changed |-> FALSE,
                     prev |-> prev, new |-> None]

\* FlooredUrl with the archive kind kept when the version is raised
FlooredUrl_KeepsKind(l, base) ==
  IF LexLess(l.d, FloorVersion)
  THEN UrlLine(FloorVersion, l.kind, l.esc, base)
  ELSE UrlLine(l.d, l.kind, l.esc, base)

\* lines 42-60: the version floor and the new URL
FlooredUrl(l, base) ==
  IF LexLess(l.d, FloorVersion)
  THEN UrlLine(FloorVersion, "all", l.esc, base)
  ELSE UrlLine(l.d, l.kind, l.esc, base)

UpdateGradleWrapper(f, base) ==
  IF ~f.exists
  THEN [file |-> f, res |-> WrFail("gradle-wrapper.properties not found")]
  ELSE LET ui == FirstIdx(f.lines, IsUrl)
       IN  IF ui = 0
           THEN [file |-> f, res |-> WrFail("distributionUrl not found")]
           ELSE IF f.lines[ui].kind = "none"
           THEN [file |-> f,
                 res |-> WrFail("Unable to extract Gradle version from distributionUrl")]
           ELSE LET old == f.lines[ui]
                    f1  == [f EXCEPT !.lines[ui] = FlooredUrl(old, base)]
                    nt  == EnsureNetworkTimeout(f1)
                IN  [file |-> nt.file,
                     res  |-> WrResult(TRUE, nt.added, nt.changed, nt.prev,
                                       nt.new, LexLess(old.d, FloorVersion), "")]

-----------------------------------------------------------------------------
(* horizon_standard_migrator.revert_wrapper_network_timeout *)

\* the info argument: None, or the network_timeout_* entries of a result
NoInfo == [none |-> TRUE, network_timeout_added |-> FALSE,
           network_timeout_changed |-> FALSE, network_timeout_prev |-> None]

InfoOf(res) == [none |-> FALSE,
                network_timeout_added |-> res.network_timeout_added,
                network_timeout_changed |-> res.network_timeout_changed,
                network_timeout_prev |-> res.network_timeout_prev]

\* line 207: remove every networkTimeout=<digits> line
RevertAdded(f) == RemoveLines(f, IsNt)

\* line 214: the replacement rf"\1{prev}\2".  The digits of prev follow the
\* group reference \1 directly, so re reads them with it: two octal digits
\* make the escape \1dd (one character), any other first digit makes a
\* reference to group 10..19, which the pattern does not have (re.error,
\* swallowed by the except clause, file untouched).
RevertChanged(f, prev) ==
  LET d == Digits(prev)
  IN  IF Len(d) >= 2 /\ d[1] <= 7 /\ d[2] <= 7
      THEN LET Repl(l) == ChrLine(64 + 8 * d[1] + d[2], SubSeq(d, 3, Len(d)))
           IN  MapTimeoutLines(f, Repl)
      ELSE f

\* line 219: remove networkTimeout=600000; the pattern is not anchored at
\* the end of the number, so of a longer number it removes the prefix
RevertFallback(f) ==
  LET six == Digits(DefaultTimeout)
      Hit(l)  == IsNt(l) /\ IsPrefix(six, Digits(l.v))
      Gone(l) == IsNt(l) /\ l.v = DefaultTimeout
      Repl(l) == IF Hit(l) /\ ~Gone(l)
                 THEN DigitsLine(SubSeq(Digits(l.v), Len(six) + 1, Len(Digits(l.v))))
                 ELSE l
  IN  RemoveLines(MapTimeoutLines(f, Repl), Gone)

RevertWrapperNetworkTimeout(f, info) ==
  IF ~f.exists THEN f
  ELSE IF ~info.none /\ info.network_timeout_added THEN RevertAdded(f)
  ELSE IF ~info.none /\ info.network_timeout_changed
          /\ info.network_timeout_prev # None
       THEN RevertChanged(f, info.network_timeout_prev)
  ELSE RevertFallback(f)

-----------------------------------------------------------------------------
(* The working tree *)

\* the artifactory URLs a run can be configured with; "default" is the
\* default of update_gradle_wrapper and of the --artifactory-url option
ArtUrls == {"default", "custom"}

\* settings.gradle: the normalized base URLs its text contains, its number
\* of brace-balanced (gradle.)allprojects blocks, the template prepended
NoSettings == [exists |-> FALSE, bases |-> {}, allproj |-> 0, tpl |-> ""]
SettingsFiles(art) ==
  {NoSettings} \cup
  {[exists |-> TRUE, bases |-> b, allproj |-> n, tpl |-> ""] :
     b \in {{}, {art}}, n \in 0..MaxSettingsBlocks}

\* root build.gradle: its number of brace-balanced wrapper blocks and the
\* gradleVersion = '<x.y.z>' its first wrapper block declares (<<>> if none)
NoBuild == [exists |-> FALSE, blocks |-> 0, gver |-> <<>>]
RootBuilds ==
  {NoBuild, [exists |-> TRUE, blocks |-> 0, gver |-> <<>>]} \cup
  {[exists |-> TRUE, blocks |-> n, gver |-> IF n = 1 THEN <<6, 8, 2>> ELSE <<>>] :
     n \in 1..MaxWrapperBlocks}

\* gradle/libs.versions.toml: whether it exists, whether it decodes as
\* UTF-8, and its lines in order.  Line kinds:
\*   [versions] [libraries] [plugins]   table headers
\*   marker       plasmaGradlePlugins = "<version>"
\*   range        an entry whose value holds a '[', as in
\*                guava = { strictly = "[30.0, 32.0[" }
\*   nexus        the plugin-repositories-nexus entry, which names
\*                version.ref = "plasmaGradlePlugins"
\*   artifactory  the plugin-repositories-artifactory entry, likewise
\*   publishing-nexus, publishing-artifactory
\*                the plugin-publishing-nexus and
\*                plugin-publishing-artifactory entries, likewise
\*   entry        any other entry
Catalog(toks) == [exists |-> TRUE, readable |-> TRUE, toks |-> toks]
NoCatalog == [exists |-> FALSE, readable |-> FALSE, toks |-> <<>>]
Catalogs ==
  {NoCatalog,
   Catalog(<<"[versions]", "entry", "[libraries]", "entry">>),
   Catalog(<<"[versions]", "marker", "[libraries]", "nexus">>),
   Catalog(<<"[versions]", "marker">>),
   Catalog(<<"[versions]", "entry", "[libraries]", "nexus">>),
   Catalog(<<"[versions]", "range", "marker", "[libraries]", "nexus">>),
   [Catalog(<<"[versions]", "marker">>) EXCEPT !.readable = FALSE]}

\* the lines a '[' occurs in
HasBracket(tok) == tok \in {"[versions]", "[libraries]", "[plugins]", "range"}

\* the lines the text plasmaGradlePlugins occurs in
HasMarker(tok) ==
  tok \in {"marker", "nexus", "artifactory",
           "publishing-nexus", "publishing-artifactory"}

\* re.search(r'\[<name>\](.*?)(?=\[|\Z)', content, re.DOTALL): the indices of
\* the lines of group 1, which runs from the first header of that name to
\* the next '[' of the text; found tells whether the header occurs
SectionMatch(toks, header) ==
  LET IsHeader(tok) == tok = header
      h == FirstIdx(toks, IsHeader)
      stops == {i \in (h+1)..Len(toks) : HasBracket(toks[i])}
      stop == IF stops = {} THEN Len(toks) + 1
              ELSE CHOOSE i \in stops : \A j \in stops : i <= j
  IN  [found |-> h # 0, body |-> IF h = 0 THEN {} ELSE (h+1)..(stop-1)]

\* GradleProjectParser.detect_gradle_platform (lines 33-57)
DetectGradlePlatform(l) ==
  /\ l.exists
  /\ l.readable
  /\ \E i \in SectionMatch(l.toks, "[versions]").body : HasMarker(l.toks[i])

\* GradlePlatformMigrator.update_libs_versions_toml (lines 21-80): inside
\* the [libraries] match the nexus plugin entry becomes the artifactory one
UpdateLibsVersionsToml(l) ==
  LET m == SectionMatch(l.toks, "[libraries]")
  IN  IF ~l.exists \/ ~l.readable \/ ~m.found
      THEN [file |-> l, success |-> FALSE, replaced |-> FALSE]
      ELSE [file |-> [l EXCEPT !.toks =
                        [i \in 1..Len(l.toks) |->
                           IF i \in m.body /\ l.toks[i] = "nexus"
                           THEN "artifactory" ELSE l.toks[i]]],
            success |-> TRUE,
            replaced |-> \E i \in m.body : l.toks[i] = "nexus"]

\* buildSrc/build.gradle: absent, without a dependencies block, or with one
BuildSrcBuilds == {"absent", "nodeps", "ok"}

\* Jenkinsfile.build.groovy: whether it mentions gradlew and whether it
\* already sets env.GRADLE_PARAMS
NoJenkins == [exists |-> FALSE, gradlew |-> FALSE, params |-> FALSE]
Jenkinsfiles ==
  {NoJenkins,
   [exists |-> TRUE, gradlew |-> TRUE, params |-> FALSE],
   [exists |-> TRUE, gradlew |-> TRUE, params |-> TRUE]}

\* the wrapper-properties files a repository run starts from
RunWrapperFiles ==
  {NoFile,
   File(<<UrlLine(<<7, 5>>, "bin", TRUE, "nexus")>>, TRUE),
   File(<<UrlLine(<<6, 8, 2>>, "all", TRUE, "nexus"), NtLine(300000)>>, TRUE),
   File(<<UrlLine(<<7, 5>>, "all", FALSE, "nexus"), NtLine(600000)>>, TRUE),
   File(<<UrlLine(<<>>, "none", TRUE, "nexus")>>, TRUE)}

-----------------------------------------------------------------------------
(* horizon_standard_migrator.parse_gradle_version_from_wrapper *)

\* the version of the first gradle-<version>-all.zip of the wrapper file,
\* else the declared gradleVersion of build.gradle, else '' (<<>>)
ParseGradleVersionFromWrapper(t) ==
  LET IsAll(l) == IsUrl(l) /\ l.kind = "all"
      i == FirstIdx(t.wrapper.lines, IsAll)
  IN  IF t.wrapper.exists /\ i # 0 THEN t.wrapper.lines[i].d
      ELSE IF t.rootBuild.exists THEN t.rootBuild.gver
      ELSE <<>>

-----------------------------------------------------------------------------
(* The rewriters *)

\* remove_plasma_nexus_block: every balanced allprojects block goes
RemovePlasmaNexusBlock(s) ==
  [file |-> [s EXCEPT !.allproj = 0],
   removed |-> s.allproj > 0, removed_count |-> s.allproj]

\* append_repositories_to_settings and append_repositories_to_settings_g6:
\* False when the normalized base is already in the text
AppendRepositories(s, art, tpl) ==
  IF art \in s.bases
  THEN [file |-> s, ok |-> FALSE]
  ELSE [file |-> [s EXCEPT !.bases = @ \cup {art}, !.tpl = tpl], ok |-> TRUE]

\* remove_wrapper_block: every balanced wrapper block goes
RemoveWrapperBlock(b) ==
  [file |-> [b EXCEPT !.blocks = 0, !.gver = <<>>],
   removed |-> b.blocks > 0, removed_count |-> b.blocks]

\* GradlePlatformMigrator.clean_root_settings_gradle: removes the first
\* allprojects block; valid when no line mentions allprojects afterwards
CleanRootSettingsGradle(s) ==
  IF ~s.exists THEN [file |-> s, valid |-> FALSE]
  ELSE LET n == IF s.allproj > 0 THEN s.allproj - 1 ELSE 0
       IN  [file |-> [s EXCEPT !.allproj = n], valid |-> n = 0]

\* the step list of a migration result, as the facts process_repo reads
NoSteps == [settings_updated |-> FALSE, wrapper_updated |-> FALSE,
            wrapper_file |-> FALSE, root_build_wrapper_removed |-> FALSE,
            root_settings_cleaned |-> FALSE, notes |-> {}]

\* standard_migration (lines 75-147)
StandardMigrationResult(t, art) ==
  LET clean == RemovePlasmaNexusBlock(t.settings)
      version == ParseGradleVersionFromWrapper(t)
      major == IF version = <<>> THEN 0 ELSE version[1]
      use_g6 == major <= 6 /\ clean.removed
      app == AppendRepositories(clean.file, art, IF use_g6 THEN "g6" ELSE "modern")
      wr == UpdateGradleWrapper(t.wrapper, art)
      rem == RemoveWrapperBlock(t.rootBuild)
      steps == [settings_updated |-> t.settings.exists /\ app.ok,
                wrapper_updated |-> t.wrapper.exists /\ wr.res.success,
                wrapper_file |-> t.wrapper.exists,
                root_build_wrapper_removed |-> t.rootBuild.exists /\ rem.removed,
                root_settings_cleaned |-> FALSE,
                notes |-> (IF t.settings.exists THEN {}
                           ELSE {"settings.gradle not found"})
                          \cup (IF t.wrapper.exists THEN {}
                                ELSE {"gradle-wrapper.properties not found"})
                          \cup (IF t.rootBuild.exists THEN {}
                                ELSE {"root build.gradle not found"})]
  IN  [tree |-> [t EXCEPT !.settings = IF t.settings.exists THEN app.file ELSE @,
                          !.wrapper = wr.file,
                          !.rootBuild = IF t.rootBuild.exists THEN rem.file ELSE @],
       steps |-> steps,
       wr |-> wr.res,
       success |-> steps.settings_updated /\ steps.wrapper_updated
                   /\ steps.root_build_wrapper_removed]

\* catalog_non_plasma_migration (lines 408-458); the buildSrc settings
\* template VERSION_CATALOG_SETTINGS_GRADLE_TEMPLATE is empty
CatalogMigrationResult(t) ==
  LET wr == UpdateGradleWrapper(t.wrapper, "default")
      clean == CleanRootSettingsGradle(t.settings)
      steps == [NoSteps EXCEPT
                  !.wrapper_updated = t.wrapper.exists /\ wr.res.success,
                  !.wrapper_file = t.wrapper.exists,
                  !.root_settings_cleaned = clean.valid,
                  !.notes = IF t.wrapper.exists THEN {}
                            ELSE {"gradle-wrapper.properties not found"}]
  IN  [tree |-> [t EXCEPT !.wrapper = wr.file, !.settings = clean.file],
       steps |-> steps,
       wr |-> wr.res,
       success |-> steps.wrapper_updated /\ steps.root_settings_cleaned]

\* GradlePlatformMigrator.run_gradle_platform_migration (lines 234-304)
PlatformMigrationResult(t) ==
  LET wr == UpdateGradleWrapper(t.wrapper, "default")
      libs == UpdateLibsVersionsToml(t.libs)
      libs_ok == libs.success
      bs_ok == t.bsBuild = "ok"
      clean == CleanRootSettingsGradle(t.settings)
  IN  [tree |-> [t EXCEPT !.wrapper = wr.file, !.settings = clean.file,
                          !.libs = libs.file],
       steps |-> [NoSteps EXCEPT !.wrapper_updated = wr.res.success,
                                 !.wrapper_file = TRUE,
                                 !.root_settings_cleaned = clean.valid],
       wr |-> wr.res,
       success |-> libs_ok /\ bs_ok /\ wr.res.success /\ clean.valid]

\* auto_update_jenkinsfiles followed by update_jenkinsfiles on the default
\* list: a file that exists and lacks env.GRADLE_PARAMS gets the line
UpdateJenkinsfilesResult(j) ==
  IF j.exists THEN [j EXCEPT !.params = TRUE] ELSE j

-----------------------------------------------------------------------------
(* process_repo (horizon_standard_migrator.py lines 224-406) *)

Flows == {"platform", "catalog", "standard"}

NoOut == [success |-> FALSE, error |-> "", migration |-> "none",
          steps |-> NoSteps, verification |-> "none",
          verification_retry |-> "none", commit |-> "none"]

Trees(art) ==
  [settings : SettingsFiles(art), wrapper : RunWrapperFiles,
   rootBuild : RootBuilds, libs : Catalogs, bsBuild : BuildSrcBuilds,
   jenkins : Jenkinsfiles, initScript : {FALSE}, cacheDir : {FALSE}]

\* a tree as a clone or an earlier run can leave it: buildSrc is looked at
\* by the Platform flow alone
TreeOk(t) == ~DetectGradlePlatform(t.libs) => t.bsBuild = "absent"

Init ==
  /\ pc = "clone"
  /\ flags \in [verify_only : BOOLEAN, regen_wrapper : BOOLEAN,
                use_cache : BOOLEAN, has_git : BOOLEAN, art : ArtUrls]
  /\ tree \in {t \in Trees(flags.art) : TreeOk(t)}
  /\ orig = tree
  /\ flow = "none"
  /\ out = NoOut
  /\ wrinfo = NoInfo
  /\ calls = <<>>

Call(name) == calls' = Append(calls, name)

Return(o) == pc' = "done" /\ out' = o

\* CloneRepo with the clone made whatever the work directory holds
CloneRepo_AlwaysClones ==
  /\ pc = "clone"
  /\ Call("clone_repo")
  /\ \E ok \in BOOLEAN :
       IF ok THEN pc' = "branch" /\ UNCHANGED out
       ELSE Return([out EXCEPT !.error = "clone failed"])
  /\ UNCHANGED <<flags, tree, orig, flow, wrinfo>>

\* lines 228-236: clone unless the work directory already holds a git repo
CloneRepo ==
  /\ pc = "clone"
  /\ IF flags.has_git
     THEN pc' = "branch" /\ UNCHANGED <<out, calls>>
     ELSE /\ Call("clone_repo")
          /\ \E ok \in BOOLEAN :
               IF ok THEN pc' = "branch" /\ UNCHANGED out
               ELSE Return([out EXCEPT !.error = "clone failed"])
  /\ UNCHANGED <<flags, tree, orig, flow, wrinfo>>

\* EnsureBranch with the run going on after a failed branch setup
EnsureBranch_GoesOnAfterFailure ==
  /\ pc = "branch"
  /\ Call("ensure_branch")
  /\ \E ok \in BOOLEAN :
       /\ pc' = "regen"
       /\ out' = IF ok THEN out ELSE [out EXCEPT !.error = "branch failed"]
  /\ UNCHANGED <<flags, tree, orig, flow, wrinfo>>

\* lines 237-241
EnsureBranch ==
  /\ pc = "branch"
  /\ Call("ensure_branch")
  /\ \E ok \in BOOLEAN :
       IF ok THEN pc' = "regen" /\ UNCHANGED out
       ELSE Return([out EXCEPT !.error = "branch failed"])
  /\ UNCHANGED <<flags, tree, orig, flow, wrinfo>>

\* lines 242-248: the optional regeneration before the migration.  The
\* files gradle regenerates (wrapper jar, scripts) are not part of the tree.
RegenerateBefore ==
  /\ pc = "regen"
  /\ IF flags.regen_wrapper /\ ~flags.verify_only
     THEN Call("regenerate_wrapper_files")
     ELSE UNCHANGED calls
  /\ pc' = "detect"
  /\ UNCHANGED <<flags, tree, orig, flow, out, wrinfo>>

\* Classify with the verify_only flag not looked at
Classify_IgnoresVerifyOnly(t, verify_only) ==
  IF DetectGradlePlatform(t.libs) THEN "platform"
  ELSE IF t.libs.exists THEN "catalog"
  ELSE "standard"

\* GradleProjectParser.detect_gradle_platform and the dispatch of lines
\* 249-261, 300, 353: marker => platform; else catalog file => catalog;
\* else standard; verify_only bypasses the flows
Classify(t, verify_only) ==
  IF verify_only THEN "verify_only"
  ELSE IF DetectGradlePlatform(t.libs) THEN "platform"
  ELSE IF t.libs.exists THEN "catalog"
  ELSE "standard"

DetectPlatform ==
  /\ pc = "detect"
  /\ Call("detect_gradle_platform")
  /\ flow' = Classify(tree, flags.verify_only)
  /\ pc' = IF flags.verify_only THEN "verify" ELSE "migrate"
  /\ UNCHANGED <<flags, tree, orig, out, wrinfo>>

\* where the run goes after the flow's rewriters: the Platform flow does
\* not read plat['success'] (lines 264-275); the other two do (305, 357)
AfterMigration(f, success) ==
  IF f = "platform" \/ success THEN "jenkins" ELSE "done"

\* the info handed to revert_wrapper_network_timeout: the Platform flow
\* passes plat['wrapper_updated'] (line 294), the other flows the first step
\* that has both 'wrapper_updated' and 'file' (lines 336-345, 390-398)
WrapperInfo(f, m) ==
  IF f = "platform" \/ m.steps.wrapper_file THEN InfoOf(m.wr) ELSE NoInfo

Migrate(f, name, m) ==
  /\ Call(name)
  /\ tree' = m.tree
  /\ wrinfo' = WrapperInfo(f, m)
  /\ out' = [out EXCEPT !.migration = IF m.success THEN "ok" ELSE "failed",
                        !.steps = m.steps]
  /\ pc' = AfterMigration(f, m.success)
  /\ UNCHANGED <<flags, orig, flow>>

\* lines 354-357
StandardMigration ==
  /\ pc = "migrate"
  /\ flow = "standard"
  /\ Migrate("standard", "standard_migration",
             StandardMigrationResult(tree, flags.art))

\* lines 300-305
CatalogNonPlasmaMigration ==
  /\ pc = "migrate"
  /\ flow = "catalog"
  /\ Migrate("catalog", "catalog_non_plasma_migration",
             CatalogMigrationResult(tree))

\* lines 261-265
RunGradlePlatformMigration ==
  /\ pc = "migrate"
  /\ flow = "platform"
  /\ Migrate("platform", "run_gradle_platform_migration",
             PlatformMigrationResult(tree))

\* lines 266-274, 306-314, 359-367
UpdateJenkinsfiles ==
  /\ pc = "jenkins"
  /\ Call("update_jenkinsfiles")
  /\ tree' = [tree EXCEPT !.jenkins = UpdateJenkinsfilesResult(@)]
  /\ pc' = "verify"
  /\ UNCHANGED <<flags, orig, flow, out, wrinfo>>

\* verify_dependency_resolution writes the init script and, with use_cache,
\* creates the isolated cache directory, then runs the build tool, whose
\* exit status the model chooses
VerifiedTree(t, use_cache) ==
  [t EXCEPT !.initScript = TRUE,
            !.cacheDir = IF use_cache THEN TRUE ELSE @]

\* AfterVerify with the retry taken whatever the first verification returned
AfterVerify_AlwaysRetry(f, ok) ==
  IF f = "verify_only" THEN "cleanup" ELSE "remediate"

\* AfterVerify with a successful first verification going on without the
\* cleanup
AfterVerify_SkipsCleanup(f, ok) ==
  IF f = "verify_only" THEN "cleanup"
  ELSE IF ok THEN "revert" ELSE "remediate"

\* lines 277, 317, 371 and the verify_only branch (254-260): a failed first
\* verification is retried, except in verify_only mode
AfterVerify(f, ok) ==
  IF ok \/ f = "verify_only" THEN "cleanup" ELSE "remediate"

Verify ==
  /\ pc = "verify"
  /\ Call("verify_dependency_resolution")
  /\ tree' = VerifiedTree(tree, flags.use_cache)
  /\ \E ok \in BOOLEAN :
       /\ out' = [out EXCEPT !.verification = IF ok THEN "ok" ELSE "failed"]
       /\ pc' = AfterVerify(flow, ok)
  /\ UNCHANGED <<flags, orig, flow, wrinfo>>

\* lines 279, 319, 373
Remediate ==
  /\ pc = "remediate"
  /\ Call("regenerate_wrapper_files")
  /\ pc' = "reverify"
  /\ UNCHANGED <<flags, tree, orig, flow, out, wrinfo>>

\* lines 280-281, 320-321, 374-375
ReVerify ==
  /\ pc = "reverify"
  /\ Call("verify_dependency_resolution")
  /\ tree' = VerifiedTree(tree, flags.use_cache)
  /\ \E ok \in BOOLEAN :
       out' = [out EXCEPT !.verification_retry = IF ok THEN "ok" ELSE "failed"]
  /\ pc' = "cleanup"
  /\ UNCHANGED <<flags, orig, flow, wrinfo>>

\* CleanedTree with the cache directory left behind
CleanedTree_KeepsCacheDir(t) == [t EXCEPT !.initScript = FALSE]

\* cleanup_after_verification (lines 721-736)
CleanedTree(t) == [t EXCEPT !.initScript = FALSE, !.cacheDir = FALSE]

\* AfterCleanup with the result of the retry not looked at
AfterCleanup_IgnoresRetryResult(f, v1, v2) ==
  IF f = "verify_only" THEN "done"
  ELSE IF v1 = "ok" THEN "revert"
  ELSE IF f = "standard" THEN "done"
  ELSE "revert"

\* AfterCleanup with the commit reached without the timeout revert
AfterCleanup_SkipsRevert(f, v1, v2) ==
  IF f = "verify_only" THEN "done"
  ELSE IF v1 = "ok" THEN "commit"
  ELSE IF f = "standard" THEN "done"
  ELSE IF v2 = "ok" THEN "commit" ELSE "done"

\* where the run goes after the cleanup: verify_only returns (259-260); a
\* passed first verification goes on to the commit; after a retry the
\* Platform and VersionCatalog flows return only when the retry failed
\* (283-287, 323-327), the Standard flow returns in either case (377-381)
AfterCleanup(f, v1, v2) ==
  IF f = "verify_only" THEN "done"
  ELSE IF v1 = "ok" THEN "revert"
  ELSE IF f = "standard" THEN "done"
  ELSE IF v2 = "ok" THEN "revert" ELSE "done"

\* ResultAfterCleanup with a successful retry reported as the success of
\* the run
ResultAfterCleanup_RetrySuccessCounts(o, f) ==
  IF f = "verify_only" THEN [o EXCEPT !.success = o.verification = "ok"]
  ELSE [o EXCEPT !.success = o.verification_retry = "ok"]

\* the result returned at the cleanup when the run ends there
ResultAfterCleanup(o, f) ==
  IF f = "verify_only" THEN [o EXCEPT !.success = o.verification = "ok"]
  ELSE IF o.verification_retry = "failed"
       THEN [o EXCEPT !.success = FALSE,
                      !.error = "Dependency resolution failed; not committing changes"]
  ELSE o

CleanupAfterVerification ==
  /\ pc = "cleanup"
  /\ Call("cleanup_after_verification")
  /\ tree' = CleanedTree(tree)
  /\ pc' = AfterCleanup(flow, out.verification, out.verification_retry)
  /\ out' = IF pc' = "done" THEN ResultAfterCleanup(out, flow) ELSE out
  /\ UNCHANGED <<flags, orig, flow, wrinfo>>

\* lines 293-295, 333-348, 387-401
RevertTimeout ==
  /\ pc = "revert"
  /\ Call("revert_wrapper_network_timeout")
  /\ tree' = [tree EXCEPT !.wrapper = RevertWrapperNetworkTimeout(@, wrinfo)]
  /\ pc' = "commit"
  /\ UNCHANGED <<flags, orig, flow, out, wrinfo>>

\* CommitPushResult with an empty git status reported as a failure
CommitPushResult_NoChangesFails(add_ok, dirty, commit_ok, push_ok) ==
  IF ~add_ok
  THEN [ok |-> FALSE, msg |-> "failed", git |-> <<"git add failed">>]
  ELSE IF ~dirty
  THEN [ok |-> FALSE, msg |-> "failed",
        git |-> <<"git add", "git status clean">>]
  ELSE IF ~commit_ok
  THEN [ok |-> FALSE, msg |-> "failed",
        git |-> <<"git add", "git status dirty", "git commit failed">>]
  ELSE IF ~push_ok
  THEN [ok |-> FALSE, msg |-> "failed",
        git |-> <<"git add", "git status dirty", "git commit",
                  "git push failed">>]
  ELSE [ok |-> TRUE, msg |-> "pushed",
        git |-> <<"git add", "git status dirty", "git commit", "git push">>]

\* commit_push (lines 56-73): the pair it returns and the git commands it
\* ran, given the outcome of each command; a command run with check=True
\* that fails raises and the except clause returns (False, str(e))
CommitPushResult(add_ok, dirty, commit_ok, push_ok) ==
  IF ~add_ok
  THEN [ok |-> FALSE, msg |-> "failed", git |-> <<"git add failed">>]
  ELSE IF ~dirty
  THEN [ok |-> TRUE, msg |-> "no changes",
        git |-> <<"git add", "git status clean">>]
  ELSE IF ~commit_ok
  THEN [ok |-> FALSE, msg |-> "failed",
        git |-> <<"git add", "git status dirty", "git commit failed">>]
  ELSE IF ~push_ok
  THEN [ok |-> FALSE, msg |-> "failed",
        git |-> <<"git add", "git status dirty", "git commit",
                  "git push failed">>]
  ELSE [ok |-> TRUE, msg |-> "pushed",
        git |-> <<"git add", "git status dirty", "git commit", "git push">>]

\* commit_push and lines 296-299, 349-352, 402-406
CommitPush ==
  /\ pc = "commit"
  /\ \E add_ok, dirty, commit_ok, push_ok \in BOOLEAN :
       LET r == CommitPushResult(add_ok, dirty, commit_ok, push_ok)
       IN  /\ calls' = Append(calls, "commit_push") \o r.git
           /\ Return([out EXCEPT !.success = r.ok, !.commit = r.msg])
  /\ UNCHANGED <<flags, tree, orig, flow, wrinfo>>

Next ==
  \/ CloneRepo
  \/ EnsureBranch
  \/ RegenerateBefore
  \/ DetectPlatform
  \/ StandardMigration
  \/ CatalogNonPlasmaMigration
  \/ RunGradlePlatformMigration
  \/ UpdateJenkinsfiles
  \/ Verify
  \/ Remediate
  \/ ReVerify
  \/ CleanupAfterVerification
  \/ RevertTimeout
  \/ CommitPush

Spec == Init /\ [][Next]_vars

-----------------------------------------------------------------------------
(* The wrapper round trip on its own: update_gradle_wrapper applied to a   *)
(* bounded wrapper-properties file, then revert_wrapper_network_timeout    *)
(* with the info that update recorded.                                     *)

\* longest wrapper-properties file, in lines
MaxWrapperLines == 3

TimeoutDomain == {5, 300000, 599999, 600000, 700000, 6000000}

\* the versions of the distribution URLs: below, at and above the floor,
\* with fewer and more components than the floor has
UrlVersions ==
  {<<5, 6, 4>>, <<6>>, <<6, 8, 2>>, <<6, 9>>, <<6, 9, 1>>, <<6, 9, 2>>,
   <<6, 9, 2, 0>>, <<6, 9, 3>>, <<6, 10, 0>>, <<7, 5>>, <<7, 5, 0>>,
   <<10, 0>>}

WrapperAlphabet ==
  {UrlLine(<<6, 8, 2>>, "all", TRUE, "nexus"),
   UrlLine(<<7, 5>>, "bin", FALSE, "nexus"),
   UrlLine(<<>>, "none", TRUE, "nexus"),
   PropLine}
  \cup {NtLine(v) : v \in TimeoutDomain}
  \cup {UrlLine(v, k, TRUE, "nexus") : v \in UrlVersions, k \in {"bin", "all"}}

\* the files of 1..MaxWrapperLines lines over WrapperAlphabet with at most
\* one distributionUrl line and at most MaxTimeoutLines networkTimeout
\* lines: the sequences of the other lines, with or without one
\* distributionUrl line put in at some place
WrapperFiles ==
  LET NotUrl(l) == ~IsUrl(l)
      urls == {l \in WrapperAlphabet : IsUrl(l)}
      others == {l \in WrapperAlphabet : NotUrl(l)}
      Rest(n) == {x \in [1..n -> others] :
                    Len(SelectSeq(x, IsNt)) <= MaxTimeoutLines}
      Put(x, i, u) == SubSeq(x, 1, i - 1) \o <<u>> \o SubSeq(x, i, Len(x))
      without == UNION {Rest(n) : n \in 1..MaxWrapperLines}
      with == UNION {{Put(x, i, u) : x \in Rest(n), i \in 1..(n+1), u \in urls} :
                       n \in 0..(MaxWrapperLines - 1)}
  IN  {File(ls, nl) : nl \in BOOLEAN, ls \in without \cup with}

EmptyTree ==
  [settings |-> NoSettings, wrapper |-> NoFile, rootBuild |-> NoBuild,
   libs |-> NoCatalog, bsBuild |-> "absent", jenkins |-> NoJenkins,
   initScript |-> FALSE, cacheDir |-> FALSE]

InitWrapper ==
  /\ pc = "w_update"
  /\ flags \in [verify_only : {FALSE}, regen_wrapper : {FALSE},
                use_cache : {FALSE}, has_git : {TRUE}, art : ArtUrls]
  /\ tree \in {[EmptyTree EXCEPT !.wrapper = f] : f \in WrapperFiles}
  /\ orig = tree
  /\ flow = "none"
  /\ out = NoOut
  /\ wrinfo = NoInfo
  /\ calls = <<>>

WrapperUpdate ==
  /\ pc = "w_update"
  /\ LET u == UpdateGradleWrapper(tree.wrapper, flags.art)
     IN  /\ tree' = [tree EXCEPT !.wrapper = u.file]
         /\ wrinfo' = InfoOf(u.res)
         /\ out' = [out EXCEPT !.steps.wrapper_updated = u.res.success,
                               !.steps.wrapper_file = TRUE]
  /\ Call("update_gradle_wrapper")
  /\ pc' = "w_revert"
  /\ UNCHANGED <<flags, orig, flow>>

WrapperRevert ==
  /\ pc = "w_revert"
  /\ tree' = [tree EXCEPT !.wrapper = RevertWrapperNetworkTimeout(@, wrinfo)]
  /\ Call("revert_wrapper_network_timeout")
  /\ pc' = "w_done"
  /\ UNCHANGED <<flags, orig, flow, out, wrinfo>>

NextWrapper == WrapperUpdate \/ WrapperRevert

SpecWrapper == InitWrapper /\ [][NextWrapper]_vars

-----------------------------------------------------------------------------
(* A rewriter applied twice: one rewriter, named by flow, is applied to a  *)
(* tree holding one file, then applied again to its own output.            *)

Rewriters ==
  {"update_gradle_wrapper", "append_repositories_to_settings",
   "append_repositories_to_settings_g6", "remove_plasma_nexus_block",
   "remove_wrapper_block", "clean_root_settings_gradle",
   "update_libs_versions_toml", "update_jenkinsfiles"}

\* the tree a rewriter leaves; the callers apply a rewriter to a file that
\* exists (standard_migration lines 88, 104, 120) or the rewriter returns
\* early on a missing file
RewriteTree(r, t, art) ==
  CASE r = "update_gradle_wrapper" ->
         [t EXCEPT !.wrapper = UpdateGradleWrapper(@, art).file]
    [] r = "append_repositories_to_settings" ->
         IF t.settings.exists
         THEN [t EXCEPT !.settings = AppendRepositories(@, art, "modern").file]
         ELSE t
    [] r = "append_repositories_to_settings_g6" ->
         IF t.settings.exists
         THEN [t EXCEPT !.settings = AppendRepositories(@, art, "g6").file]
         ELSE t
    [] r = "remove_plasma_nexus_block" ->
         IF t.settings.exists
         THEN [t EXCEPT !.settings = RemovePlasmaNexusBlock(@).file]
         ELSE t
    [] r = "remove_wrapper_block" ->
         IF t.rootBuild.exists
         THEN [t EXCEPT !.rootBuild = RemoveWrapperBlock(@).file]
         ELSE t
    [] r = "clean_root_settings_gradle" ->
         [t EXCEPT !.settings = CleanRootSettingsGradle(@).file]
    [] r = "update_libs_versions_toml" ->
         [t EXCEPT !.libs = UpdateLibsVersionsToml(@).file]
    [] r = "update_jenkinsfiles" ->
         [t EXCEPT !.jenkins = UpdateJenkinsfilesResult(@)]

\* the input trees: the empty tree with the one file the rewriter edits
RewriterInputs(r, art) ==
  CASE r = "update_gradle_wrapper" ->
         {[EmptyTree EXCEPT !.wrapper = f] : f \in WrapperFiles \cup {NoFile}}
    [] r \in {"append_repositories_to_settings",
              "append_repositories_to_settings_g6",
              "remove_plasma_nexus_block", "clean_root_settings_gradle"} ->
         {[EmptyTree EXCEPT !.settings = s] : s \in SettingsFiles(art)}
    [] r = "remove_wrapper_block" ->
         {[EmptyTree EXCEPT !.rootBuild = b] : b \in RootBuilds}
    [] r = "update_libs_versions_toml" ->
         {[EmptyTree EXCEPT !.libs = c] : c \in Catalogs}
    [] r = "update_jenkinsfiles" ->
         {[EmptyTree EXCEPT !.jenkins = j] : j \in Jenkinsfiles}

InitRewriter ==
  /\ pc = "r_first"
  /\ flags \in [verify_only : {FALSE}, regen_wrapper : {FALSE},
                use_cache : {FALSE}, has_git : {TRUE}, art : ArtUrls]
  /\ flow \in Rewriters
  /\ tree \in RewriterInputs(flow, flags.art)
  /\ orig = tree
  /\ out = NoOut
  /\ wrinfo = NoInfo
  /\ calls = <<>>

RewriteFirst ==
  /\ pc = "r_first"
  /\ tree' = RewriteTree(flow, tree, flags.art)
  /\ Call(flow)
  /\ pc' = "r_second"
  /\ UNCHANGED <<flags, orig, flow, out, wrinfo>>

RewriteSecond ==
  /\ pc = "r_second"
  /\ tree' = RewriteTree(flow, tree, flags.art)
  /\ Call(flow)
  /\ pc' = "r_done"
  /\ UNCHANGED <<flags, orig, flow, out, wrinfo>>

NextRewriter == RewriteFirst \/ RewriteSecond

SpecRewriter == InitRewriter /\ [][NextRewriter]_vars

-----------------------------------------------------------------------------
(* settings.gradle as text: a sequence of units, each a character or a     *)
(* word.  Units: the words pluginManagement,                               *)
(* dependencyResolutionManagement and repositories; "{" and "}"; a space   *)
(* " " and a newline "\n"; "x" for any other text; "base" for the          *)
(* normalized artifactory base URL; "template" and "template_g6" for the   *)
(* stripped text of SETTINGS_GRADLE_TEMPLATE and of                        *)
(* STANDARD_SETTINGS_G6_TEMPLATE with the base URL filled in.              *)

\* largest number of top-level sections of a settings.gradle text
MaxSections == 3

IsSpace(u) == u \in {" ", "\n"}

\* the units the base URL occurs in
HasBase(u) == u \in {"base", "template", "template_g6"}

Occurs(content, u) == \E i \in 1..Len(content) : content[i] = u

RECURSIVE Flatten(_)
\* the concatenation of a sequence of texts
Flatten(ss) == IF ss = <<>> THEN <<>> ELSE Head(ss) \o Flatten(Tail(ss))

\* the sections the settings.gradle texts are made of
SettingsSections ==
  {<<"pluginManagement", " ", "{", "\n", " ", "repositories", " ", "{",
     "x", "}", "\n", "}", "\n">>,
   <<"dependencyResolutionManagement", " ", "{", "\n", " ", "repositories",
     " ", "{", "x", "}", "\n", "}", "\n">>,
   <<"dependencyResolutionManagement", " ", "{", "\n", " ", "repositories",
     "{", "x", "}", "\n", "}", "\n">>,
   <<"dependencyResolutionManagement", " ", "{", "x", "}", "\n">>,
   <<"x", "\n">>,
   <<"base", "\n">>}

SettingsTexts ==
  {Flatten(ss) : ss \in UNION {[1..n -> SettingsSections] : n \in 0..MaxSections}}

\* re.search(r'(\s*)repositories\s*\{', content): the leftmost match; at is
\* the index of the word, start the index where group 1 begins
RepositoriesMatch(content) ==
  LET Opens(r) == /\ content[r] = "repositories"
                  /\ \E b \in (r+1)..Len(content) :
                       /\ content[b] = "{"
                       /\ \A k \in (r+1)..(b-1) : IsSpace(content[k])
      cands == {r \in 1..Len(content) : Opens(r)}
      at == CHOOSE r \in cands : \A q \in cands : r <= q
      start == CHOOSE s \in 1..at :
                 /\ \A k \in s..(at-1) : IsSpace(content[k])
                 /\ s = 1 \/ ~IsSpace(content[s-1])
  IN  IF cands = {} THEN [found |-> FALSE, at |-> 0, start |-> 0]
      ELSE [found |-> TRUE, at |-> at, start |-> start]

\* 'repositories {' in content
HasRepositoriesLiteral(content) ==
  \E i \in 1..(Len(content) - 2) :
    content[i] = "repositories" /\ content[i+1] = " " /\ content[i+2] = "{"

\* content.rfind('}'), counted from 1; 0 when there is none
LastClose(content) ==
  LET cs == {i \in 1..Len(content) : content[i] = "}"}
  IN  IF cs = {} THEN 0 ELSE CHOOSE i \in cs : \A j \in cs : j <= i

\* settings_template.append_repositories_to_settings (lines 74-120)
AppendRepositoriesToSettings(content) ==
  IF \E i \in 1..Len(content) : HasBase(content[i])
  THEN [content |-> content, ok |-> FALSE]
  ELSE IF Occurs(content, "dependencyResolutionManagement")
  THEN IF HasRepositoriesLiteral(content)
       THEN LET m == RepositoriesMatch(content)
                indent == SubSeq(content, m.start, m.at - 1)
            IN  [content |-> SubSeq(content, 1, m.start - 1)
                             \o <<"template", "\n", "\n">> \o indent
                             \o SubSeq(content, m.start, Len(content)),
                 ok |-> TRUE]
       ELSE LET e == LastClose(content)
            IN  [content |-> SubSeq(content, 1, e - 1)
                             \o <<"\n", " ", " ", " ", " ", "repositories",
                                  " ", "{", "template", "\n", " ", " ", " ",
                                  " ", "}", "\n">>
                             \o SubSeq(content, e, Len(content)),
                 ok |-> TRUE]
  ELSE [content |-> <<"template", "\n", "\n">> \o content, ok |-> TRUE]

\* settings_template.append_repositories_to_settings_g6 (lines 122-138)
AppendRepositoriesToSettingsG6(content) ==
  IF \E i \in 1..Len(content) : HasBase(content[i])
  THEN [content |-> content, ok |-> FALSE]
  ELSE [content |-> <<"template_g6", "\n", "\n">> \o content, ok |-> TRUE]

InitSettingsText ==
  /\ pc = "s_append"
  /\ flags \in [verify_only : {FALSE}, regen_wrapper : {FALSE},
                use_cache : {FALSE}, has_git : {TRUE}, art : ArtUrls]
  /\ flow \in {"append_repositories_to_settings",
               "append_repositories_to_settings_g6"}
  /\ tree \in {[content |-> c] : c \in SettingsTexts}
  /\ orig = tree
  /\ out = NoOut
  /\ wrinfo = NoInfo
  /\ calls = <<>>

AppendToSettings ==
  /\ pc = "s_append"
  /\ flow = "append_repositories_to_settings"
  /\ LET r == AppendRepositoriesToSettings(tree.content)
     IN  /\ tree' = [tree EXCEPT !.content = r.content]
         /\ out' = [out EXCEPT !.steps.settings_updated = r.ok]
  /\ Call(flow)
  /\ pc' = "s_done"
  /\ UNCHANGED <<flags, orig, flow, wrinfo>>

AppendToSettingsG6 ==
  /\ pc = "s_append"
  /\ flow = "append_repositories_to_settings_g6"
  /\ LET r == AppendRepositoriesToSettingsG6(tree.content)
     IN  /\ tree' = [tree EXCEPT !.content = r.content]
         /\ out' = [out EXCEPT !.steps.settings_updated = r.ok]
  /\ Call(flow)
  /\ pc' = "s_done"
  /\ UNCHANGED <<flags, orig, flow, wrinfo>>

NextSettingsText == AppendToSettings \/ AppendToSettingsG6

SpecSettingsText == InitSettingsText /\ [][NextSettingsText]_vars

-----------------------------------------------------------------------------
(* Block removal on text: remove_plasma_nexus_block, remove_wrapper_block  *)
(* and GradlePlatformMigrator._remove_block scan a text for a start        *)
(* pattern and delete from the match to the brace that closes its block.   *)
(* A text is a sequence of units: the keyword of the operation, "{", "}",  *)
(* the newline "\n" (the white space of the model) and "x" for any other   *)
(* text.  The loops are modelled an iteration at a time.                   *)

\* longest text, in units
MaxTextLen == 6

BlockOps ==
  {"remove_plasma_nexus_block", "remove_wrapper_block", "_remove_block"}

\* the words the start pattern of an operation matches: (?:gradle\.)?allprojects,
\* wrapper, and the block_name handed to _remove_block
Keywords(op) ==
  CASE op = "remove_plasma_nexus_block" -> {"allprojects", "gradle.allprojects"}
    [] op = "remove_wrapper_block" -> {"wrapper"}
    [] op = "_remove_block" -> {"pluginManagement"}

\* len(u) of a unit
Width(u) ==
  CASE u = "allprojects" -> 11
    [] u = "gradle.allprojects" -> 18
    [] u = "wrapper" -> 7
    [] u = "pluginManagement" -> 16
    [] OTHER -> 1

RECURSIVE TextWidth(_)
\* len(text)
TextWidth(c) == IF c = <<>> THEN 0 ELSE Width(Head(c)) + TextWidth(Tail(c))

BlockTexts(op) ==
  UNION {[1..n -> Keywords(op) \cup {"{", "}", "\n", "x"}] : n \in 0..MaxTextLen}

\* pattern.search(content, pos): the leftmost match that starts at pos or
\* later.  at is the index of the keyword, brace that of the "{" the match
\* ends with, start where the match begins: at the keyword, or for
\* remove_wrapper_block ((?m)^\s*wrapper\s*\{) at the first line start from
\* which only white space precedes the keyword
SearchPattern(op, content, pos) ==
  LET Brace(k) == CHOOSE b \in (k+1)..Len(content) :
                    /\ content[b] = "{"
                    /\ \A j \in (k+1)..(b-1) : IsSpace(content[j])
      Opens(k) == /\ content[k] \in Keywords(op)
                  /\ \E b \in (k+1)..Len(content) :
                       /\ content[b] = "{"
                       /\ \A j \in (k+1)..(b-1) : IsSpace(content[j])
      Starts(k) == IF op = "remove_wrapper_block"
                   THEN {p \in pos..k :
                           /\ \A j \in p..(k-1) : IsSpace(content[j])
                           /\ p = 1 \/ content[p-1] = "\n"}
                   ELSE {p \in pos..k : p = k}
      cands == {k \in 1..Len(content) : Opens(k) /\ Starts(k) # {}}
      at == CHOOSE k \in cands : \A q \in cands : k <= q
      start == CHOOSE p \in Starts(at) : \A q \in Starts(at) : p <= q
  IN  IF cands = {} THEN [found |-> FALSE, start |-> 0, at |-> 0, brace |-> 0]
      ELSE [found |-> TRUE, start |-> start, at |-> at, brace |-> Brace(at)]

RECURSIVE ScanBraces(_, _, _)
\* the loop over range(brace_start, len(content)) with its depth counter:
\* the index where the depth comes back to 0, or 0 (end_idx is None)
ScanBraces(content, i, depth) ==
  IF i > Len(content) THEN 0
  ELSE IF content[i] = "{" THEN ScanBraces(content, i + 1, depth + 1)
  ELSE IF content[i] = "}"
       THEN IF depth = 1 THEN i ELSE ScanBraces(content, i + 1, depth - 1)
  ELSE ScanBraces(content, i + 1, depth)

\* MatchingBrace with the end of the text taken for the closing brace of a
\* block that is never closed
MatchingBrace_EndOfText(content, brace) ==
  IF ScanBraces(content, brace, 0) = 0 THEN Len(content)
  ELSE ScanBraces(content, brace, 0)

\* MatchingBrace with the scan ended at the first closing brace
MatchingBrace_FirstClose(content, brace) ==
  LET cs == {i \in brace..Len(content) : content[i] = "}"}
  IN  IF cs = {} \/ ScanBraces(content, brace, 0) = 0 THEN 0
      ELSE CHOOSE i \in cs : \A j \in cs : i <= j

\* the closing brace of the block that opens at brace, or 0
MatchingBrace(content, brace) == ScanBraces(content, brace, 0)

\* content[:start_idx] + content[end_idx+1:]
DeleteSpan(content, start, stop) ==
  SubSeq(content, 1, start - 1) \o SubSeq(content, stop + 1, Len(content))

\* the locals of the loop and the file on disk
BlockState(c) ==
  [file |-> c, content |-> c, pos |-> 1, total_removed |-> 0,
   removed_any |-> FALSE, written |-> FALSE]

NoRemoval == [removed |-> FALSE, removed_bytes |-> 0, removed_count |-> 0]

InitBlocks ==
  /\ pc = "b_loop"
  /\ flags \in [verify_only : {FALSE}, regen_wrapper : {FALSE},
                use_cache : {FALSE}, has_git : {TRUE}, art : {"default"}]
  /\ flow \in BlockOps
  /\ tree \in {BlockState(c) : c \in BlockTexts(flow)}
  /\ orig = tree
  /\ out = NoRemoval
  /\ wrinfo = NoInfo
  /\ calls = <<>>

\* one pass of the loop body that removes a block
RemoveOne(m, stop, next_pos) ==
  /\ tree' = [tree EXCEPT
                !.content = DeleteSpan(@, m.start, stop),
                !.total_removed = @ + TextWidth(SubSeq(tree.content, m.start, stop)),
                !.removed_any = TRUE,
                !.pos = next_pos]
  /\ out' = [out EXCEPT !.removed_count = @ + 1]
  /\ UNCHANGED <<pc, flags, orig, flow, wrinfo, calls>>

\* the statements after the loop: the file is written only if a block went
FinishRemoval ==
  /\ pc' = "b_done"
  /\ tree' = IF tree.removed_any
             THEN [tree EXCEPT !.file = tree.content, !.written = TRUE]
             ELSE tree
  /\ out' = IF tree.removed_any
            THEN [out EXCEPT !.removed = TRUE,
                             !.removed_bytes = tree.total_removed]
            ELSE out
  /\ Call(flow)
  /\ UNCHANGED <<flags, orig, flow, wrinfo>>

\* remove_plasma_nexus_block, lines 932-958: the search starts over from
\* the beginning of the text
PlasmaRemoveOne ==
  /\ pc = "b_loop"
  /\ flow = "remove_plasma_nexus_block"
  /\ LET m == SearchPattern(flow, tree.content, 1)
     IN  /\ m.found
         /\ MatchingBrace(tree.content, m.brace) # 0
         /\ RemoveOne(m, MatchingBrace(tree.content, m.brace), 1)

\* lines 934-935, 950-951 (break) and 959-962
PlasmaFinish ==
  /\ pc = "b_loop"
  /\ flow = "remove_plasma_nexus_block"
  /\ LET m == SearchPattern(flow, tree.content, 1)
     IN  IF m.found THEN MatchingBrace(tree.content, m.brace) = 0 ELSE TRUE
  /\ FinishRemoval

\* remove_wrapper_block, lines 160-190: the search goes on from pos
WrapperRemoveOne ==
  /\ pc = "b_loop"
  /\ flow = "remove_wrapper_block"
  /\ LET m == SearchPattern(flow, tree.content, tree.pos)
     IN  /\ m.found
         /\ MatchingBrace(tree.content, m.brace) # 0
         /\ RemoveOne(m, MatchingBrace(tree.content, m.brace), m.start)

\* lines 180-182: an unbalanced match is stepped over (pos = m.end())
WrapperSkip ==
  /\ pc = "b_loop"
  /\ flow = "remove_wrapper_block"
  /\ LET m == SearchPattern(flow, tree.content, tree.pos)
     IN  /\ m.found
         /\ MatchingBrace(tree.content, m.brace) = 0
         /\ tree' = [tree EXCEPT !.pos = m.brace + 1]
  /\ UNCHANGED <<pc, flags, orig, flow, out, wrinfo, calls>>

\* lines 162-163 (break) and 191-194
WrapperFinish ==
  /\ pc = "b_loop"
  /\ flow = "remove_wrapper_block"
  /\ ~SearchPattern(flow, tree.content, tree.pos).found
  /\ FinishRemoval

\* GradlePlatformMigrator._remove_block (lines 360-379): the first match
\* only; the text is returned, the caller writes the file
RemoveBlock ==
  /\ pc = "b_loop"
  /\ flow = "_remove_block"
  /\ LET m == SearchPattern(flow, tree.content, 1)
         stop == IF m.found THEN MatchingBrace(tree.content, m.brace) ELSE 0
     IN  tree' = IF stop # 0
                 THEN [tree EXCEPT !.content = DeleteSpan(@, m.start, stop)]
                 ELSE tree
  /\ pc' = "b_done"
  /\ Call(flow)
  /\ UNCHANGED <<flags, orig, flow, out, wrinfo>>

NextBlocks ==
  \/ PlasmaRemoveOne
  \/ PlasmaFinish
  \/ WrapperRemoveOne
  \/ WrapperSkip
  \/ WrapperFinish
  \/ RemoveBlock

SpecBlocks == InitBlocks /\ [][NextBlocks]_vars

-----------------------------------------------------------------------------
(* verify_dependency_resolution: the result and the log summary *)

MaxStdoutLines == 2
MaxStderrLines == 1

\* the substrings of the list patterns (line 572) that the modelled output
\* can hold, and a message that holds none of them
FailurePatterns == {"Could not resolve", "UNRESOLVED |"}
Messages == FailurePatterns \cup {"BUILD SUCCESSFUL"}

\* an output line: a message in the letter case the tool printed it in
\* ("given": as in Messages), with or without white space around it
OutputLine(msg, case, padded) == [msg |-> msg, case |-> case, padded |-> padded]
OutputLines ==
  {OutputLine(m, "given", p) : m \in Messages, p \in BOOLEAN}
    \cup {OutputLine("Could not resolve", c, FALSE) : c \in {"upper", "lower"}}

\* str.lower() and str.strip()
Lower(l) == [l EXCEPT !.case = "lower"]
Strip(l) == [l EXCEPT !.padded = FALSE]

\* any(p.lower() in low for p in patterns), line 577
ContainsFailure(l) ==
  \E p \in FailurePatterns :
    Lower(OutputLine(p, "given", FALSE)).msg = Lower(l).msg
      /\ Lower(OutputLine(p, "given", FALSE)).case = Lower(l).case

RECURSIVE Unresolved(_, _)
\* the loop of lines 573-581 over combined.splitlines(): the stripped
\* failure lines, duplicates dropped, in the order met
Unresolved(lines, seen) ==
  IF lines = <<>> THEN <<>>
  ELSE LET key == Strip(Head(lines))
       IN  IF ContainsFailure(Head(lines)) /\ key \notin seen
           THEN <<key>> \o Unresolved(Tail(lines), seen \cup {key})
           ELSE Unresolved(Tail(lines), seen)

\* combined = stdout + "\n" + stderr, as lines
Combined(proc) == proc.stdout \o proc.stderr

\* what subprocess.run can do: run the build tool to an exit code with its
\* two output streams, or fail to start it
Processes ==
  [launch : {"ran"}, returncode : {0, 1},
   stdout : UNION {[1..n -> OutputLines] : n \in 0..MaxStdoutLines},
   stderr : UNION {[1..n -> OutputLines] : n \in 0..MaxStderrLines}]
    \cup [launch : {"not_found", "error"}, returncode : {None},
          stdout : {<<>>}, stderr : {<<>>}]

NoLog == [written |-> FALSE, summary |-> <<>>, text |-> <<>>]
NoVerifyResult == [success |-> FALSE, returned |-> FALSE, log |-> NoLog]

\* the return value with the output scan deciding it as well
VerifyResult_ScanDecides(proc) ==
  proc.returncode = 0 /\ Unresolved(Combined(proc), {}) = <<>>

\* lines 597-603: the exit code alone
VerifyResult(proc) == proc.returncode = 0

InitVerify ==
  /\ pc = "v_run"
  /\ flags \in [verify_only : {FALSE}, regen_wrapper : {FALSE},
                use_cache : BOOLEAN, has_git : {TRUE}, art : {"default"},
                log_writable : BOOLEAN]
  /\ tree \in Processes
  /\ orig = tree
  /\ flow = "none"
  /\ out = NoVerifyResult
  /\ wrinfo = NoInfo
  /\ calls = <<>>

\* lines 562-603: the process ran; the log is written when the file can be
\* (a failure of write_text is swallowed, lines 592-595)
VerifyRan ==
  /\ pc = "v_run"
  /\ tree.launch = "ran"
  /\ pc' = "v_done"
  /\ out' = [success |-> VerifyResult(tree),
             returned |-> TRUE,
             log |-> IF flags.log_writable
                     THEN [written |-> TRUE,
                           summary |-> Unresolved(Combined(tree), {}),
                           text |-> Combined(tree)]
                     ELSE NoLog]
  /\ Call("verify_dependency_resolution")
  /\ UNCHANGED <<flags, tree, orig, flow, wrinfo>>

\* lines 604-617: the build tool is not there (FileNotFoundError)
VerifyNotFound ==
  /\ pc = "v_run"
  /\ tree.launch = "not_found"
  /\ pc' = "v_done"
  /\ out' = [success |-> FALSE,
             returned |-> TRUE,
             log |-> IF flags.log_writable
                     THEN [written |-> TRUE, summary |-> <<>>, text |-> <<>>]
                     ELSE NoLog]
  /\ Call("verify_dependency_resolution")
  /\ UNCHANGED <<flags, tree, orig, flow, wrinfo>>

\* lines 618-632: any other exception
VerifyError ==
  /\ pc = "v_run"
  /\ tree.launch = "error"
  /\ pc' = "v_done"
  /\ out' = [success |-> FALSE,
             returned |-> TRUE,
             log |-> IF flags.log_writable
                     THEN [written |-> TRUE, summary |-> <<>>, text |-> <<>>]
                     ELSE NoLog]
  /\ Call("verify_dependency_resolution")
  /\ UNCHANGED <<flags, tree, orig, flow, wrinfo>>

NextVerify ==
  \/ VerifyRan
  \/ VerifyNotFound
  \/ VerifyError

SpecVerify == InitVerify /\ [][NextVerify]_vars

-----------------------------------------------------------------------------
(* The batch drivers: a thread pool of repository tasks *)

MaxBatch == 2
MaxClock == 1

Drivers == {"main", "migrate_repositories_parallel"}

\* a repository URL git@host:<org>/<name>.git; LongName stands for a name
\* of 250 characters
LongName == "name of 250 characters"
Url(org, name) == [org |-> org, name |-> name]
NoUrl == Url("", "")
Urls ==
  {Url("org-a", "repo"), Url("org-b", "repo"), Url("org-a", "lib"),
   Url("org-a", LongName)}

\* the batches: up to MaxBatch distinct URLs in the order submitted
Batches ==
  {b \in UNION {[1..n -> Urls] : n \in 1..MaxBatch} :
     \A i, j \in 1..Len(b) : i # j => b[i] # b[j]}

\* a working directory under temp_root: std_mig_<stem> or
\* gradle_migration_<time to the second>
Dir(stem, at) == [stem |-> stem, at |-> at]
NoDir == Dir("", -1)
AllDirs ==
  {Dir(u.name, 0) : u \in Urls} \cup {Dir("", c) : c \in 0..MaxClock}

\* process_repo, line 225: Path(repo_url).stem, the organisation is dropped
\* migrate_repository_legacy, line 186: the time of the start, in seconds
WorkDir(driver, url, now) ==
  IF driver = "main" THEN Dir(url.name, 0) ELSE Dir("", now)

\* work_dir.exists() raises OSError (ENAMETOOLONG) for a path component of
\* more than 255 bytes
StatRaises(dir) == dir.stem = LongName

\* a directory with the repository it is a clone of and, as history, the
\* tasks that cloned into it, reused it, rewrote it or deleted it
NoDirectory == [exists |-> FALSE, repo |-> NoUrl, users |-> {}]

Task(url) == [url |-> url, pc |-> "queued", dir |-> NoDir, success |-> FALSE]

Running(t) == flow[t].pc \in {"cloning", "working", "cleanup"}
Finished(t) == flow[t].pc \in {"returned", "raised"}

\* ThreadPoolExecutor: tasks start in the order submitted, at most
\* max_workers of them run at a time
MayStart(t) ==
  /\ flow[t].pc = "queued"
  /\ \A s \in 1..(t-1) : flow[s].pc # "queued"
  /\ Cardinality({s \in DOMAIN flow : Running(s)}) < flags.max_workers

Use(t, dir) == [tree EXCEPT !.dirs[dir].users = @ \cup {t}]

InitBatch ==
  /\ pc = "collect"
  /\ flags \in [verify_only : {FALSE}, regen_wrapper : {FALSE},
                use_cache : {FALSE}, has_git : {TRUE}, art : {"default"},
                driver : Drivers, max_workers : {1, 2}]
  /\ orig \in Batches
  /\ flow = [t \in 1..Len(orig) |-> Task(orig[t])]
  /\ tree = [clock |-> 0, dirs |-> [d \in AllDirs |-> NoDirectory]]
  /\ out = [results |-> <<>>, collected |-> {}, ok_count |-> None]
  /\ wrinfo = NoInfo
  /\ calls = <<>>

\* the wall clock passes a second boundary
Tick ==
  /\ flags.driver = "migrate_repositories_parallel"
  /\ tree.clock < MaxClock
  /\ tree' = [tree EXCEPT !.clock = @ + 1]
  /\ UNCHANGED <<pc, flags, orig, flow, out, wrinfo, calls>>

\* process_repo, lines 225-236: the directory is named, and reused when it
\* holds a git repository already
ProcessRepoStart ==
  \E t \in DOMAIN flow :
    /\ flags.driver = "main"
    /\ MayStart(t)
    /\ LET dir == WorkDir("main", flow[t].url, tree.clock)
       IN  IF StatRaises(dir)
           THEN /\ flow' = [flow EXCEPT ![t].pc = "raised", ![t].dir = dir]
                /\ tree' = tree
           ELSE IF tree.dirs[dir].exists
           THEN /\ flow' = [flow EXCEPT ![t].pc = "working", ![t].dir = dir]
                /\ tree' = Use(t, dir)
           ELSE /\ flow' = [flow EXCEPT ![t].pc = "cloning", ![t].dir = dir]
                /\ tree' = tree
    /\ UNCHANGED <<pc, flags, orig, out, wrinfo, calls>>

\* migrate_repository_legacy, line 186
LegacyStart ==
  \E t \in DOMAIN flow :
    /\ flags.driver = "migrate_repositories_parallel"
    /\ MayStart(t)
    /\ flow' = [flow EXCEPT ![t].pc = "cloning",
                            ![t].dir = WorkDir(flags.driver, flow[t].url, tree.clock)]
    /\ UNCHANGED <<pc, flags, tree, orig, out, wrinfo, calls>>

\* clone_repo / clone_repository: git clone refuses a directory that is
\* there already, and may fail for reasons of its own
CloneInto ==
  \E t \in DOMAIN flow, ok \in BOOLEAN :
    /\ flow[t].pc = "cloning"
    /\ LET dir == flow[t].dir
           done == ok /\ ~tree.dirs[dir].exists
       IN  /\ tree' = IF done
                      THEN [tree EXCEPT !.dirs[dir] =
                              [exists |-> TRUE, repo |-> flow[t].url,
                               users |-> @.users \cup {t}]]
                      ELSE tree
           /\ flow' = [flow EXCEPT
                         ![t].pc = IF done THEN "working"
                                   ELSE IF flags.driver = "main" THEN "returned"
                                   ELSE "cleanup"]
    /\ UNCHANGED <<pc, flags, orig, out, wrinfo, calls>>

\* the rewriting, verification and commit in the working directory
WorkInDir ==
  \E t \in DOMAIN flow, ok \in BOOLEAN :
    /\ flow[t].pc = "working"
    /\ tree' = Use(t, flow[t].dir)
    /\ flow' = [flow EXCEPT
                  ![t].success = ok,
                  ![t].pc = IF flags.driver = "main" THEN "returned" ELSE "cleanup"]
    /\ UNCHANGED <<pc, flags, orig, out, wrinfo, calls>>

\* migrate_repository_legacy, lines 208-211 (finally): the directory is
\* deleted if it is there; an exception of rmtree leaves the task
LegacyCleanup ==
  \E t \in DOMAIN flow, rmtree_ok \in BOOLEAN :
    /\ flow[t].pc = "cleanup"
    /\ LET dir == flow[t].dir
       IN  IF tree.dirs[dir].exists
           THEN /\ tree' = IF rmtree_ok
                           THEN [tree EXCEPT !.dirs[dir] =
                                   [exists |-> FALSE, repo |-> NoUrl,
                                    users |-> @.users \cup {t}]]
                           ELSE Use(t, dir)
                /\ flow' = [flow EXCEPT
                              ![t].pc = IF rmtree_ok THEN "returned" ELSE "raised"]
           ELSE /\ tree' = tree
                /\ flow' = [flow EXCEPT ![t].pc = "returned"]
    /\ UNCHANGED <<pc, flags, orig, out, wrinfo, calls>>

ResultRecord(t, success) == [repo |-> flow[t].url, success |-> success]

\* main, lines 1005-1006: results.append(f.result()), the exception of a
\* task is raised again by f.result() and leaves main
\* migrate_repositories_parallel, lines 266-279: the exception is caught
\* and recorded as a failed result
CollectFrom(driver, t) ==
  IF flow[t].pc = "raised"
  THEN IF driver = "main"
       THEN [pc |-> "crashed", results |-> out.results]
       ELSE [pc |-> "collect", results |-> Append(out.results, ResultRecord(t, FALSE))]
  ELSE [pc |-> "collect",
        results |-> Append(out.results, ResultRecord(t, flow[t].success))]

\* as_completed hands over a finished task
Collect ==
  \E t \in DOMAIN flow :
    /\ pc = "collect"
    /\ Finished(t)
    /\ t \notin out.collected
    /\ pc' = CollectFrom(flags.driver, t).pc
    /\ out' = [out EXCEPT !.results = CollectFrom(flags.driver, t).results,
                          !.collected = @ \cup {t}]
    /\ UNCHANGED <<flags, tree, orig, flow, wrinfo, calls>>

\* main, lines 1008-1009: the success count; migrate_repositories_parallel
\* returns the list
Report ==
  /\ pc = "collect"
  /\ out.collected = DOMAIN flow
  /\ pc' = "reported"
  /\ out' = [out EXCEPT !.ok_count =
               Cardinality({i \in 1..Len(out.results) : out.results[i].success})]
  /\ Call(flags.driver)
  /\ UNCHANGED <<flags, tree, orig, flow, wrinfo>>

NextBatch ==
  \/ Tick
  \/ ProcessRepoStart
  \/ LegacyStart
  \/ CloneInto
  \/ WorkInDir
  \/ LegacyCleanup
  \/ Collect
  \/ Report

SpecBatch == InitBatch /\ [][NextBatch]_vars

-----------------------------------------------------------------------------
(* update_libs_versions_toml on catalogs of a few lines *)

MaxCatalogLines == 4

CatalogLines ==
  {"[versions]", "[libraries]", "[plugins]", "marker", "entry",
   "nexus", "artifactory", "publishing-nexus", "publishing-artifactory"}

CatalogTexts ==
  {Catalog(toks) : toks \in UNION {[1..n -> CatalogLines] : n \in 0..MaxCatalogLines}}

InitCatalog ==
  /\ pc = "c_update"
  /\ flags \in [verify_only : {FALSE}, regen_wrapper : {FALSE},
                use_cache : {FALSE}, has_git : {TRUE}, art : {"default"}]
  /\ tree \in {[libs |-> l] : l \in CatalogTexts \cup {NoCatalog}}
  /\ orig = tree
  /\ flow = "platform"
  /\ out = [success |-> FALSE, replaced |-> FALSE]
  /\ wrinfo = NoInfo
  /\ calls = <<>>

\* GradlePlatformMigrator.update_libs_versions_toml, lines 21-80
UpdateLibs ==
  /\ pc = "c_update"
  /\ pc' = "c_done"
  /\ LET r == UpdateLibsVersionsToml(tree.libs)
     IN  /\ tree' = [tree EXCEPT !.libs = r.file]
         /\ out' = [success |-> r.success, replaced |-> r.replaced]
  /\ Call("update_libs_versions_toml")
  /\ UNCHANGED <<flags, orig, flow, wrinfo>>

NextCatalog ==
  \/ UpdateLibs

SpecCatalog == InitCatalog /\ [][NextCatalog]_vars

-----------------------------------------------------------------------------
(* The artifactory base URL in the three flows *)

MaxTrailingSlashes == 1

\* a base URL https://<host>[/artifactory][/...]: its host, whether its
\* path ends with /artifactory, and the number of '/' at its end
BaseUrl(host, artifactory, slashes) ==
  [host |-> host, artifactory |-> artifactory, slashes |-> slashes]

\* the default of update_gradle_wrapper's artifactory_base parameter
DefaultBase == BaseUrl("artifactory.org.com", TRUE, 0)
LegacyBase == BaseUrl("nexus", FALSE, 0)

ArtifactoryUrls ==
  {BaseUrl(h, a, n) : h \in {"artifactory.org.com", "mirror"},
                      a \in BOOLEAN, n \in 0..MaxTrailingSlashes}

\* settings_template._normalize_base
NormalizeBase(url) ==
  LET base == [url EXCEPT !.slashes = 0]
  IN  IF base.artifactory THEN base ELSE [base EXCEPT !.artifactory = TRUE]

\* the artifactory_base the flow's rewriter hands to update_gradle_wrapper:
\* standard_migration passes artifactory_url on (line 112), the other two
\* call update_gradle_wrapper with the file alone
WrapperBase(f, artifactory_url) ==
  IF f = "standard" THEN artifactory_url ELSE DefaultBase

BaseWrapperFiles ==
  {NoFile} \cup
  {File(<<UrlLine(v, k, e, LegacyBase)>>, TRUE) :
     v \in UrlVersions, k \in {"bin", "all"}, e \in BOOLEAN}

InitBase ==
  /\ pc = "u_migrate"
  /\ flags \in [verify_only : {FALSE}, regen_wrapper : {FALSE},
                use_cache : {FALSE}, has_git : {TRUE}, art : {"default"},
                artifactory_url : ArtifactoryUrls]
  /\ flow \in Flows
  /\ tree \in [wrapper : BaseWrapperFiles, settings_base : {LegacyBase}]
  /\ orig = tree
  /\ out = [wrapper_updated |-> FALSE]
  /\ wrinfo = NoInfo
  /\ calls = <<>>

\* the wrapper step of a flow's rewriter, and in the Standard flow the base
\* of the repository block prepended to settings.gradle
UpdateWrapperIn(f) ==
  LET wr == UpdateGradleWrapper(tree.wrapper, WrapperBase(f, flags.artifactory_url))
  IN  /\ tree' = [wrapper |-> wr.file,
                  settings_base |-> IF f = "standard"
                                    THEN NormalizeBase(flags.artifactory_url)
                                    ELSE tree.settings_base]
      /\ out' = [wrapper_updated |-> wr.res.success]

\* standard_migration, lines 99-102 and 110-112
StandardWrapperBase ==
  /\ pc = "u_migrate"
  /\ flow = "standard"
  /\ pc' = "u_done"
  /\ UpdateWrapperIn("standard")
  /\ Call("standard_migration")
  /\ UNCHANGED <<flags, orig, flow, wrinfo>>

\* catalog_non_plasma_migration, lines 413-415
CatalogWrapperBase ==
  /\ pc = "u_migrate"
  /\ flow = "catalog"
  /\ pc' = "u_done"
  /\ UpdateWrapperIn("catalog")
  /\ Call("catalog_non_plasma_migration")
  /\ UNCHANGED <<flags, orig, flow, wrinfo>>

\* GradlePlatformMigrator.run_gradle_platform_migration, lines 254-256
PlatformWrapperBase ==
  /\ pc = "u_migrate"
  /\ flow = "platform"
  /\ pc' = "u_done"
  /\ UpdateWrapperIn("platform")
  /\ Call("run_gradle_platform_migration")
  /\ UNCHANGED <<flags, orig, flow, wrinfo>>

NextBase ==
  \/ StandardWrapperBase
  \/ CatalogWrapperBase
  \/ PlatformWrapperBase

SpecBase == InitBase /\ [][NextBase]_vars

-----------------------------------------------------------------------------
(* Properties *)

Called(name) == \E i \in 1..Len(calls) : calls[i] = name
Indices(name) == {i \in 1..Len(calls) : calls[i] = name}

\* C1: in every flow, when the first verification and the re-verify both
\* fail, commit_push is never invoked and the returned result is a failure
C1_NoCommitAfterTwoFailures ==
  (out.verification = "failed" /\ out.verification_retry = "failed")
    => /\ ~Called("commit_push")
       /\ pc = "done" => ~out.success

C1_Witness ==
  /\ pc = "done"
  /\ flow \in Flows
  /\ out.migration = "ok"
  /\ out.verification = "failed" /\ out.verification_retry = "failed"

\* C2: commit_push is invoked only if the chosen flow's aggregate rewrite
\* result has success = True
C2_CommitOnlyAfterRewriteSuccess ==
  Called("commit_push") => out.migration = "ok"

\* C3: when all rewrite steps succeeded, the first verification failed and
\* the re-verify succeeded, the finished run has invoked commit_push
C3_CommitAfterSuccessfulRetry ==
  (/\ pc = "done"
   /\ out.migration = "ok"
   /\ out.verification = "failed"
   /\ out.verification_retry = "ok")
    => Called("commit_push")

\* C4: verification is invoked at most twice; a second invocation happens
\* only after the first failed, with exactly one regenerate_wrapper_files
\* between the two; after a successful first verification neither a
\* regeneration nor another verification runs
C4_BoundedRetry ==
  LET v == Indices("verify_dependency_resolution")
      r == Indices("regenerate_wrapper_files")
      first == CHOOSE i \in v : \A j \in v : i <= j
      last == CHOOSE i \in v : \A j \in v : j <= i
  IN  /\ Cardinality(v) <= 2
      /\ Cardinality(v) = 2 =>
           /\ out.verification = "failed"
           /\ Cardinality({i \in r : first < i /\ i < last}) = 1
      /\ (v # {} /\ out.verification = "ok") =>
           /\ Cardinality(v) = 1
           /\ \A i \in r : i < first

C4_Witness ==
  /\ pc = "done"
  /\ Cardinality(Indices("verify_dependency_resolution")) = 2
  /\ flags.regen_wrapper

C6_RevertBeforeCommit ==
  /\ \A c \in Indices("commit_push") :
       \E r \in Indices("revert_wrapper_network_timeout") :
         /\ r < c
         /\ \A v \in Indices("verify_dependency_resolution") : v < r
  /\ (pc = "done" /\ Called("revert_wrapper_network_timeout"))
       => Called("commit_push")

C6_Witness ==
  /\ pc = "done"
  /\ Called("commit_push")
  /\ out.verification_retry = "ok"

\* C7: after update_gradle_wrapper succeeded and
\* revert_wrapper_network_timeout ran with the info it recorded, the
\* networkTimeout property is as it was: absent if it was absent, with its
\* original value if it was present
C7_TimeoutRoundTrip ==
  (pc = "w_done" /\ out.steps.wrapper_updated)
    => TimeoutValues(tree.wrapper) = TimeoutValues(orig.wrapper)

\* C8: after a successful update_gradle_wrapper the file has a
\* networkTimeout=<integer> line of at least 600000: 600000 when the
\* property was absent or lower, the previous value otherwise
C8_TimeoutAtLeastDefault ==
  (pc = "w_revert" /\ out.steps.wrapper_updated)
    => LET now == TimeoutValues(tree.wrapper)
           was == TimeoutValues(orig.wrapper)
       IN  /\ now # <<>>
           /\ now[1] >= DefaultTimeout
           /\ was = <<>> => now = <<DefaultTimeout>>
           /\ (was # <<>> /\ was[1] < DefaultTimeout) => now[1] = DefaultTimeout
           /\ (was # <<>> /\ was[1] >= DefaultTimeout) => now = was

\* the Standard flow ran its rewriters and every file it found was
\* rewritten without an error
StandardStepsOnPresentFilesOk ==
  /\ flow = "standard"
  /\ out.migration # "none"
  /\ tree.settings.exists => out.steps.settings_updated
  /\ tree.wrapper.exists => out.steps.wrapper_updated
  /\ tree.rootBuild.exists => out.steps.root_build_wrapper_removed

\* C9: in the Standard flow a missing settings.gradle, wrapper-properties
\* file or root build.gradle is recorded as a no-op step with a note and the
\* run still reaches the verification
C9_AbsenceNotFatal ==
  (/\ StandardStepsOnPresentFilesOk
   /\ ~tree.settings.exists \/ ~tree.wrapper.exists \/ ~tree.rootBuild.exists)
    => /\ out.steps.notes # {}
       /\ pc # "done" \/ Called("verify_dependency_resolution")

\* C10: in the Standard flow a settings file that already contains the
\* base URL, or a root build file without a wrapper block, does not halt
\* the run: it still reaches the verification
C10_NoOpNotFatal ==
  (/\ flow = "standard"
   /\ out.migration # "none"
   /\ tree.settings.exists /\ tree.wrapper.exists /\ tree.rootBuild.exists
   /\ out.steps.wrapper_updated
   /\ flags.art \in orig.settings.bases \/ orig.rootBuild.blocks = 0)
    => pc # "done" \/ Called("verify_dependency_resolution")

\* C11: every rewriter is idempotent: applied a second time, to the output
\* of its first application, it leaves the file as the first application
\* left it
C11_RewriterIdempotent ==
  pc = "r_done" => tree = RewriteTree(flow, orig, flags.art)

\* the [versions] table of a catalog, as TOML delimits it: the lines from
\* the [versions] header to the next table header
VersionsTable(l) ==
  LET IsVersions(tok) == tok = "[versions]"
      h == FirstIdx(l.toks, IsVersions)
      heads == {i \in (h+1)..Len(l.toks) :
                  l.toks[i] \in {"[versions]", "[libraries]", "[plugins]"}}
      stop == IF heads = {} THEN Len(l.toks) + 1
              ELSE CHOOSE i \in heads : \A j \in heads : i <= j
  IN  IF h = 0 THEN {} ELSE (h+1)..(stop-1)

\* the flow the precedence rule names for a tree
ExpectedFlow(t) ==
  IF /\ t.libs.exists /\ t.libs.readable
     /\ \E i \in VersionsTable(t.libs) : HasMarker(t.libs.toks[i])
  THEN "platform"
  ELSE IF t.libs.exists THEN "catalog"
  ELSE "standard"

\* the collaborator that runs the rewriters of a flow
FlowCall(f) ==
  CASE f = "platform" -> "run_gradle_platform_migration"
    [] f = "catalog" -> "catalog_non_plasma_migration"
    [] f = "standard" -> "standard_migration"

\* C12: the flow whose rewriters run is Platform when the catalog exists
\* and its [versions] table holds the marker, else VersionCatalog when the
\* catalog exists, else Standard; the rewriters of no other flow run, and
\* those of the chosen flow run once
C12_FlowPrecedence ==
  LET ran == {f \in Flows : Called(FlowCall(f))}
  IN  /\ ran \subseteq {ExpectedFlow(orig)}
      /\ \A f \in Flows : Cardinality(Indices(FlowCall(f))) <= 1
      /\ out.migration # "none" => ran = {ExpectedFlow(orig)}

\* C13: when the work directory already holds a git repository clone_repo
\* is never invoked and the directory is used as it is, yet ensure_branch
\* and then the classification run before any flow's rewriters; otherwise
\* clone_repo is invoked once, before anything else
C13_Reentrancy ==
  /\ flags.has_git =>
        /\ ~Called("clone_repo")
        /\ pc = "branch" => tree = orig
  /\ (~flags.has_git /\ calls # <<>>) =>
        /\ calls[1] = "clone_repo"
        /\ Cardinality(Indices("clone_repo")) = 1
  /\ \A f \in Flows : \A m \in Indices(FlowCall(f)) :
        \E b \in Indices("ensure_branch") :
          \E d \in Indices("detect_gradle_platform") : b < d /\ d < m

C13_Witness ==
  /\ pc = "done"
  /\ flags.has_git
  /\ flow \in Flows
  /\ out.migration = "ok"
  /\ Called("commit_push")

\* C14: when clone_repo or ensure_branch fails the run has returned with
\* success = False and the error detail, nothing but clone_repo and
\* ensure_branch was invoked, and the working tree is untouched
C14_CloneOrBranchFailureAborts ==
  out.error \in {"clone failed", "branch failed"} =>
    /\ pc = "done"
    /\ ~out.success
    /\ \A i \in 1..Len(calls) : calls[i] \in {"clone_repo", "ensure_branch"}
    /\ tree = orig

C14_Witness ==
  /\ pc = "done"
  /\ out.error = "branch failed"
  /\ calls = <<"clone_repo", "ensure_branch">>
  /\ flags.regen_wrapper

\* C15: when git status is empty after staging, commit_push reports
\* 'no changes' without committing or pushing and the run returns
\* success = True; when git add, git commit or git push fails the run
\* returns success = False
C15_NoChangesIsSuccess ==
  (pc = "done" /\ Called("commit_push")) =>
    /\ Called("git status clean") =>
          /\ out.success
          /\ out.commit = "no changes"
          /\ ~Called("git commit") /\ ~Called("git commit failed")
          /\ ~Called("git push") /\ ~Called("git push failed")
    /\ (\/ Called("git add failed")
        \/ Called("git commit failed")
        \/ Called("git push failed")) => ~out.success

C15_Witness ==
  /\ pc = "done"
  /\ flow \in Flows
  /\ Called("git status clean")
  /\ out.commit = "no changes"

\* version a precedes version b numerically: component by component as
\* integers, a missing component counting as 0
NumericallyBelow(a, b) ==
  LET n == IF Len(a) > Len(b) THEN Len(a) ELSE Len(b)
      pa == [i \in 1..n |-> IF i <= Len(a) THEN a[i] ELSE 0]
      pb == [i \in 1..n |-> IF i <= Len(b) THEN b[i] ELSE 0]
  IN  \E i \in 1..n : pa[i] < pb[i] /\ \A j \in 1..(i-1) : pa[j] = pb[j]

C17_TemplateByMajorVersion ==
  (flow = "standard" /\ out.steps.settings_updated) =>
    LET version == ParseGradleVersionFromWrapper(orig)
        major == IF version = <<>> THEN 0 ELSE version[1]
    IN  tree.settings.tpl = IF major <= 6 THEN "g6" ELSE "modern"

RECURSIVE RStrip(_)
\* a text without its trailing white space
RStrip(c) ==
  IF c # <<>> /\ IsSpace(c[Len(c)]) THEN RStrip(SubSeq(c, 1, Len(c) - 1))
  ELSE c

RECURSIVE LStrip(_)
\* a text without its leading white space
LStrip(c) == IF c # <<>> /\ IsSpace(Head(c)) THEN LStrip(Tail(c)) ELSE c

\* the indices of the repositories blocks nested in a
\* dependencyResolutionManagement construct: the word repositories, then
\* "{", inside the braces that follow the word
\* dependencyResolutionManagement
NestedRepositories(content) ==
  LET Count(u, a, b) == Cardinality({k \in a..b : content[k] = u})
      Inside(d, r) ==
        \E b \in (d+1)..(r-1) :
          /\ content[b] = "{"
          /\ \A k \in (d+1)..(b-1) : IsSpace(content[k])
          /\ \A k \in b..(r-1) : Count("{", b, k) > Count("}", b, k)
  IN  {r \in 1..Len(content) :
         /\ content[r] = "repositories"
         /\ \E b \in (r+1)..Len(content) :
              /\ content[b] = "{"
              /\ \A k \in (r+1)..(b-1) : IsSpace(content[k])
         /\ \E d \in 1..(r-1) :
              content[d] = "dependencyResolutionManagement" /\ Inside(d, r)}

\* C18: applied to a settings file without the base URL that has a
\* repositories block nested in dependencyResolutionManagement,
\* append_repositories_to_settings puts the template immediately before
\* that block (white space apart) and keeps the text before and after it
C18_InsertBeforeNestedRepositories ==
  (/\ pc = "s_done"
   /\ flow = "append_repositories_to_settings"
   /\ ~\E i \in 1..Len(orig.content) : HasBase(orig.content[i])
   /\ NestedRepositories(orig.content) # {}) =>
    LET old == orig.content
        new == tree.content
        nested == NestedRepositories(old)
        d == CHOOSE r \in nested : \A q \in nested : r <= q
    IN  \E t \in 1..Len(new) :
          /\ new[t] = "template"
          /\ RStrip(SubSeq(new, 1, t - 1)) = RStrip(SubSeq(old, 1, d - 1))
          /\ LStrip(SubSeq(new, t + 1, Len(new))) = SubSeq(old, d, Len(old))

\* the start pattern of op matches in c from s on, with b the "{" it ends
\* with
StartsBlock(op, c, s, b) ==
  /\ s \in 1..Len(c) /\ b \in (s+1)..Len(c)
  /\ c[b] = "{"
  /\ \E k \in s..(b-1) :
       /\ c[k] \in Keywords(op)
       /\ \A j \in (k+1)..(b-1) : IsSpace(c[j])
       /\ IF op = "remove_wrapper_block"
          THEN /\ \A j \in s..(k-1) : IsSpace(c[j])
               /\ s = 1 \/ c[s-1] = "\n"
          ELSE k = s

\* e is the closing brace at which the nesting depth of the block opened
\* at b is back at zero: as many "}" as "{" from b to e, and fewer before
ClosesBlock(c, b, e) ==
  LET Count(u, hi) == Cardinality({k \in b..hi : c[k] = u})
  IN  /\ e \in b..Len(c)
      /\ c[e] = "}"
      /\ Count("{", e) = Count("}", e)
      /\ \A k \in b..(e-1) : Count("{", k) > Count("}", k)

\* C19: whenever one of the three operations deletes text, what it deletes
\* is one span that begins where the start pattern matches and ends with
\* the closing brace at which the nesting depth is back at zero; the text
\* before and after the span is kept as it is
C19_RemovalRespectsNesting ==
  [][tree'.content # tree.content =>
       \E s, b, e \in 1..Len(tree.content) :
         /\ StartsBlock(flow, tree.content, s, b)
         /\ ClosesBlock(tree.content, b, e)
         /\ tree'.content = SubSeq(tree.content, 1, s - 1)
                             \o SubSeq(tree.content, e + 1, Len(tree.content))]_vars

C19_Witness ==
  /\ pc = "b_done"
  /\ flow = "remove_plasma_nexus_block"
  /\ orig.content = <<"x", "gradle.allprojects", "{", "{", "}", "}">>
  /\ tree.file = <<"x">>
  /\ out.removed_count = 1

\* the start-pattern matches of a text whose opening brace is never closed
UnbalancedMatches(op, c) ==
  {s \in 1..Len(c) :
     \E b \in 1..Len(c) :
       StartsBlock(op, c, s, b) /\ ~\E e \in 1..Len(c) : ClosesBlock(c, b, e)}

\* the start-pattern matches of a text whose block is brace-balanced
BalancedMatches(op, c) ==
  {s \in 1..Len(c) :
     \E b \in 1..Len(c) :
       StartsBlock(op, c, s, b) /\ \E e \in 1..Len(c) : ClosesBlock(c, b, e)}

IsSuffix(p, c) ==
  Len(p) <= Len(c) /\ SubSeq(c, Len(c) - Len(p) + 1, Len(c)) = p

C21_EveryMatchingBlockRemoved ==
  (/\ pc = "b_done"
   /\ flow \in {"remove_plasma_nexus_block", "remove_wrapper_block"}) =>
    /\ BalancedMatches(flow, tree.file) = {}
    /\ out.removed_bytes = TextWidth(orig.file) - TextWidth(tree.file)
    /\ out.removed = (out.removed_count > 0)


\* the position of the first line of the output whose stripped text is key
FirstOccurrence(lines, key) ==
  CHOOSE i \in 1..Len(lines) :
    Strip(lines[i]) = key /\ \A j \in 1..(i-1) : Strip(lines[j]) # key

\* C22: verify_dependency_resolution returns True exactly when the build
\* tool ran and its exit code is 0, whatever the output holds; the summary
\* of the log lists every output line that holds a failure substring in any
\* letter case, stripped, once each and in the order of first occurrence,
\* whether the exit code is 0 or not
C22_ExitCodeIsAuthoritative ==
  (pc = "v_done" /\ orig.launch = "ran") =>
    LET lines == Combined(orig)
        failing == {i \in 1..Len(lines) :
                      \E p \in FailurePatterns, c \in {"given", "upper", "lower"} :
                        lines[i].msg = p /\ lines[i].case = c}
        summary == out.log.summary
    IN  /\ out.success = (orig.returncode = 0)
        /\ out.log.written =>
             /\ \A i \in failing : \E k \in 1..Len(summary) : summary[k] = Strip(lines[i])
             /\ \A k \in 1..Len(summary) : \E i \in failing : summary[k] = Strip(lines[i])
             /\ \A k, n \in 1..Len(summary) :
                  k < n => /\ summary[k] # summary[n]
                           /\ FirstOccurrence(lines, summary[k])
                                < FirstOccurrence(lines, summary[n])

C22_Witness ==
  /\ pc = "v_done"
  /\ orig.returncode = 0
  /\ orig.stdout = <<OutputLine("UNRESOLVED |", "given", TRUE),
                     OutputLine("UNRESOLVED |", "given", FALSE)>>
  /\ orig.stderr = <<OutputLine("Could not resolve", "upper", FALSE)>>
  /\ out.success
  /\ out.log.written
  /\ out.log.summary = <<OutputLine("UNRESOLVED |", "given", FALSE),
                         OutputLine("Could not resolve", "upper", FALSE)>>


\* C23: no working directory is ever used by two tasks of a batch: the
\* tasks that cloned into a directory, reused it as a rerun, rewrote it or
\* deleted it are at most one, also for two repositories of the same short
\* name in different organisations and for two tasks started within the
\* same second
C23_WorkDirExclusive ==
  pc \in {"collect", "reported", "crashed"} =>
    \A d \in DOMAIN tree.dirs : Cardinality(tree.dirs[d].users) <= 1

\* C24: when the driver of a batch of N repositories has stopped it holds
\* exactly N result records, one for each repository submitted, whatever
\* the tasks did, an exception included, and the success count is the
\* number of records with success = True
C24_BatchCompletes ==
  pc \in {"reported", "crashed"} =>
    /\ pc = "reported"
    /\ Len(out.results) = Len(orig)
    /\ \A t \in 1..Len(orig) :
         Cardinality({i \in 1..Len(out.results) : out.results[i].repo = orig[t]}) = 1
    /\ out.ok_count =
         Cardinality({i \in 1..Len(out.results) : out.results[i].success})


\* the lines of the [libraries] section of a catalog
LibrariesSection(l) == SectionMatch(l.toks, "[libraries]").body

\* C25: after update_libs_versions_toml has succeeded on a catalog whose
\* [libraries] section holds the plugin-publishing-nexus and the
\* plugin-repositories-nexus entry, the section holds neither of them and
\* holds the plugin-publishing-artifactory and the
\* plugin-repositories-artifactory entry; the lines outside the section are
\* unchanged
C25_LegacyPluginEntriesReplaced ==
  (/\ pc = "c_done"
   /\ out.success
   /\ \E i \in LibrariesSection(orig.libs) : orig.libs.toks[i] = "publishing-nexus"
   /\ \E i \in LibrariesSection(orig.libs) : orig.libs.toks[i] = "nexus") =>
    LET old == orig.libs.toks
        new == tree.libs.toks
        inside == LibrariesSection(tree.libs)
    IN  /\ \A i \in inside : new[i] \notin {"publishing-nexus", "nexus"}
        /\ \E i \in inside : new[i] = "publishing-artifactory"
        /\ \E i \in inside : new[i] = "artifactory"
        /\ Len(new) = Len(old)
        /\ \A i \in 1..Len(old) : i \notin LibrariesSection(orig.libs) => new[i] = old[i]


\* the collaborators of process_repo that rewrite the repository
Rewriters_ProcessRepo ==
  {"standard_migration", "catalog_non_plasma_migration",
   "run_gradle_platform_migration", "update_jenkinsfiles",
   "regenerate_wrapper_files"}

\* C26: in verify-only mode process_repo invokes no rewriter (no flow
\* migration, no Jenkinsfile patching, no wrapper regeneration, also with
\* regen_wrapper set), leaves the build files as they are and never invokes
\* commit_push; a run that gets past clone and branch invokes verification
\* exactly once, and the success it returns is that verification's result
C26_VerifyOnlyRewritesNothing ==
  flags.verify_only =>
    /\ \A n \in Rewriters_ProcessRepo \cup {"commit_push"} : ~Called(n)
    /\ tree.settings = orig.settings /\ tree.wrapper = orig.wrapper
    /\ tree.rootBuild = orig.rootBuild /\ tree.libs = orig.libs
    /\ tree.bsBuild = orig.bsBuild /\ tree.jenkins = orig.jenkins
    /\ Cardinality(Indices("verify_dependency_resolution")) <= 1
    /\ (pc = "done" /\ Called("detect_gradle_platform")) =>
         /\ Cardinality(Indices("verify_dependency_resolution")) = 1
         /\ out.success = (out.verification = "ok")
         /\ out.verification_retry = "none"

C26_Witness ==
  /\ pc = "done"
  /\ flags.verify_only /\ flags.regen_wrapper
  /\ DetectGradlePlatform(orig.libs)
  /\ out.verification = "failed"
  /\ ~out.success
  /\ calls = <<"ensure_branch", "detect_gradle_platform",
               "verify_dependency_resolution", "cleanup_after_verification">>


C28_WrapperUrlUsesConfiguredBase ==
  (pc = "u_done" /\ out.wrapper_updated) =>
    \A i \in 1..Len(tree.wrapper.lines) :
      IsUrl(tree.wrapper.lines[i]) =>
        tree.wrapper.lines[i].base = NormalizeBase(flags.artifactory_url)


\* C29: for every wrapper-properties file from which update_gradle_wrapper
\* can extract a version, of archive kind bin or all,
\* parse_gradle_version_from_wrapper returns that same version
C29_VersionParsersAgree ==
  LET ui == FirstIdx(tree.wrapper.lines, IsUrl)
  IN  (/\ tree.wrapper.exists
       /\ ui # 0
       /\ tree.wrapper.lines[ui].kind \in {"bin", "all"}) =>
        ParseGradleVersionFromWrapper(tree) = tree.wrapper.lines[ui].d


\* C30: a finished run of process_repo that is not verify-only returns
\* success = True only if commit_push was invoked in it and came back with
\* success (pushed, or no changes); a run that ends at a clone, branch,
\* rewrite or verification failure returns success = False
C30_ResultAccuracy ==
  (pc = "done" /\ ~flags.verify_only) =>
    /\ out.success =>
         /\ Called("commit_push")
         /\ out.commit \in {"pushed", "no changes"}
         /\ Called("git push") \/ Called("git status clean")
    /\ (\/ out.error \in {"clone failed", "branch failed"}
        \/ out.migration = "failed" /\ ~Called("verify_dependency_resolution")
        \/ out.verification = "failed" /\ out.verification_retry = "failed")
         => ~out.success /\ ~Called("commit_push")

C30_Witness ==
  /\ pc = "done"
  /\ ~flags.verify_only
  /\ flow = "standard"
  /\ out.migration = "ok" /\ out.verification = "ok"
  /\ out.commit = "pushed"
  /\ out.success

====
